---- MODULE Spec2Model ----
(***************************************************************************)
(* Model of the D-PPG Vasoquant 1000 reader core:                          *)
(*   - the streaming protocol decoder (src/src/protocol.py),               *)
(*   - the block constructor and its artifact trimmer (src/src/models.py), *)
(*   - the receiver that threads the buffer through successive calls       *)
(*     (src/src/capture/receiver.py).                                      *)
(* Byte buffers are sequences of naturals in 0..255.  The source indexes   *)
(* from 0; At(buf, i) is buf[i] of the source.                             *)
(***************************************************************************)
EXTENDS Integers, Sequences, FiniteSets, TLC

(***************************************************************************)
(* Protocol constants (config.py, class Protocol).                         *)
(***************************************************************************)
ESC == 27
SOH == 1
EOT == 4
GS == 29
LCHAR == 76

\* int(ESTIMATED_SAMPLING_RATE)
SR == 4

\* The value standing for Python's None in optional integer fields.
None == -1

(***************************************************************************)
(* Sequence helpers with the source's 0-based indexing.                    *)
(***************************************************************************)
Min(a, b) == IF a < b THEN a ELSE b

\* buf[i]; a read outside the sequence raises IndexError in the source and
\* is reported by Raises below, here it yields None so evaluation goes on.
At(buf, i) == IF i >= 0 /\ i < Len(buf) THEN buf[i + 1] ELSE None

\* buf[a:b] for 0 <= a (Python slices clamp to the length).
Slice(buf, a, b) ==
    LET hi == Min(b, Len(buf))
    IN IF a >= hi THEN << >> ELSE SubSeq(buf, a + 1, hi)

\* buf[a:]
From(buf, a) == Slice(buf, a, Len(buf))

\* buffer.index(b): the least i with buf[i] = b, or None for ValueError.
Index(buf, b) ==
    IF \E i \in 1..Len(buf) : buf[i] = b
    THEN (CHOOSE i \in 1..Len(buf) : buf[i] = b /\ \A j \in 1..(i - 1) : buf[j] # b) - 1
    ELSE None

\* low | (high << 8)
U16(low, high) == low + 256 * high

(***************************************************************************)
(* models.py: the artifact trimmer and the block constructor.              *)
(***************************************************************************)
RECURSIVE Insert(_, _)
\* One insertion step of sorted(): v placed before the first larger element.
Insert(s, v) ==
    IF s = << >> THEN << v >>
    ELSE IF v <= Head(s) THEN << v >> \o s
    ELSE << Head(s) >> \o Insert(Tail(s), v)

RECURSIVE Sorted(_)
\* sorted(main_samples)
Sorted(s) == IF s = << >> THEN << >> ELSE Insert(Sorted(Tail(s)), Head(s))

\* max(s) and min(s) of a non-empty list
MaxOf(s) == CHOOSE v \in {s[i] : i \in 1..Len(s)} : \A j \in 1..Len(s) : s[j] <= v
MinOf(s) == CHOOSE v \in {s[i] : i \in 1..Len(s)} : \A j \in 1..Len(s) : s[j] >= v

Abs(x) == IF x < 0 THEN -x ELSE x

\* iqr = q3 - q1 if q3 > q1 else 50
Iqr(q1, q3) == IF q3 > q1 THEN q3 - q1 ELSE 50

\* The statistics of the main samples (all but the last 5).
TrimStats(samples) ==
    LET main_samples == Slice(samples, 0, Len(samples) - 5)
        sorted_main == Sorted(main_samples)
        n == Len(sorted_main)
    IN [median |-> At(sorted_main, n \div 2),
        iqr |-> Iqr(At(sorted_main, n \div 4), At(sorted_main, (3 * n) \div 4))]

\* val < median - 2.5 * iqr or val > median + 2.5 * iqr, scaled by 2.
IsOutlier(val, median, iqr) ==
    2 * val < 2 * median - 5 * iqr \/ 2 * val > 2 * median + 5 * iqr

\* abs(samples[i] - median) > 1.5 * iqr, scaled by 2.
IsDeviant(val, median, iqr) == 2 * Abs(val - median) > 3 * iqr

\* LastFive with the scan starting one sample too early.
LastFiveFromSix(samples) == (Len(samples) - 6)..(Len(samples) - 1)

\* The indices range(len(samples) - 5, len(samples)).
LastFive(samples) == (Len(samples) - 5)..(Len(samples) - 1)

\* The loop of lines 145-150: the index of the first outlier among the last
\* 5 samples, or len(samples).
FirstOutlier(samples, median, iqr) ==
    IF \E i \in LastFive(samples) : IsOutlier(At(samples, i), median, iqr)
    THEN CHOOSE i \in LastFive(samples) :
            /\ IsOutlier(At(samples, i), median, iqr)
            /\ \A j \in LastFive(samples) : j < i => ~IsOutlier(At(samples, j), median, iqr)
    ELSE Len(samples)

\* The loop of lines 161-163: the index of the first of the last 5 samples
\* that deviates from the median, or len(samples).
FirstDeviant(samples, median, iqr) ==
    IF \E i \in LastFive(samples) : IsDeviant(At(samples, i), median, iqr)
    THEN CHOOSE i \in LastFive(samples) :
            /\ IsDeviant(At(samples, i), median, iqr)
            /\ \A j \in LastFive(samples) : j < i => ~IsDeviant(At(samples, j), median, iqr)
    ELSE Len(samples)

\* PPGBlock._trim_trailing_artifacts
TrimTrailingArtifacts(samples) ==
    IF Len(samples) < 15 THEN samples
    ELSE LET main_samples == Slice(samples, 0, Len(samples) - 5)
         IN IF Len(main_samples) < 10 THEN samples
            ELSE LET st == TrimStats(samples)
                     trim_from == FirstOutlier(samples, st.median, st.iqr)
                     last_5 == From(samples, Len(samples) - 5)
                     last_range == MaxOf(last_5) - MinOf(last_5)
                     main_20 == From(main_samples, Len(main_samples) - 20)
                     main_range == IF Len(main_samples) >= 20
                                   THEN MaxOf(main_20) - MinOf(main_20)
                                   ELSE st.iqr
                 IN IF trim_from < Len(samples) THEN Slice(samples, 0, trim_from)
                    ELSE IF last_range > main_range * 2
                         THEN Slice(samples, 0, FirstDeviant(samples, st.median, st.iqr))
                         ELSE samples

\* PPGBlock.__init__: the fields of a block.  label_char, label_desc and
\* timestamp are presentation fields and are left out.
PPGBlock(label_byte, samples, exam_number, metadata_raw) ==
    [label_byte |-> label_byte,
     samples_raw |-> samples,
     samples |-> TrimTrailingArtifacts(samples),
     exam_number |-> exam_number,
     metadata_raw |-> metadata_raw,
     trimmed_count |-> Len(samples) - Len(TrimTrailingArtifacts(samples)),
     hw_baseline |-> None,
     hw_peak_index |-> None,
     hw_end_index |-> None,
     hw_amplitude |-> None,
     hw_To_samples |-> None,
     hw_Th_samples |-> None,
     hw_Ti |-> None,
     hw_Fo_x100 |-> None,
     hw_flags |-> None]

(***************************************************************************)
(* protocol.py: the helpers of _try_parse_block.                           *)
(***************************************************************************)
\* metadata_min_size
MetadataMinSize == 10

\* esc_pos + 10 > len(buffer): not enough bytes for the header yet.
HeaderIncomplete(buffer, esc_pos) == esc_pos + 10 > Len(buffer)

\* _is_valid_header
IsValidHeader(buffer, pos) ==
    /\ At(buffer, pos + 1) = LCHAR
    /\ At(buffer, pos + 3) = EOT
    /\ At(buffer, pos + 4) = SOH
    /\ At(buffer, pos + 5) = GS

\* num_samples = size_low | (size_high << 8)
NumSamples(buffer, esc_pos) == U16(At(buffer, esc_pos + 7), At(buffer, esc_pos + 8))

\* DataStart one byte early.
DataStartOffByOne(esc_pos) == esc_pos + 8

DataStart(esc_pos) == esc_pos + 9

DataEnd(buffer, esc_pos) == DataStart(esc_pos) + NumSamples(buffer, esc_pos) * 2

\* data_end > len(buffer): the payload has not fully arrived.
PayloadIncomplete(buffer, data_end) == data_end > Len(buffer)

\* HasNextBlock that does not look at the first byte after the payload.
HasNextBlockFromOne(buffer, start) ==
    \E i \in (start + 1)..(Min(start + 30, Len(buffer)) - 1) : At(buffer, i) = ESC

\* _has_next_block
HasNextBlock(buffer, start) ==
    \E i \in start..(Min(start + 30, Len(buffer)) - 1) : At(buffer, i) = ESC

\* MetadataIncomplete without the minimum size added.
MetadataIncompleteNoMin(buffer, data_end) ==
    ~HasNextBlock(buffer, data_end) /\ data_end > Len(buffer)

\* not has_next_block and (data_end + metadata_min_size) > len(buffer)
MetadataIncomplete(buffer, data_end) ==
    ~HasNextBlock(buffer, data_end) /\ data_end + MetadataMinSize > Len(buffer)

\* The guard of _extract_samples: if i + 1 < len(buffer)
SampleReadable(buffer, i) == i + 1 < Len(buffer)

\* _extract_samples
ExtractSamples(buffer, start, end) ==
    LET range == {i \in start..(end - 1) : (i - start) % 2 = 0}
        cnt == Cardinality({i \in range : SampleReadable(buffer, i)})
        \* the k-th i of the range that passes the guard
        Nth(k) == CHOOSE i \in range :
                    /\ SampleReadable(buffer, i)
                    /\ Cardinality({j \in range : j < i /\ SampleReadable(buffer, j)}) = k - 1
    IN [k \in 1..cnt |-> U16(At(buffer, Nth(k)), At(buffer, Nth(k) + 1))]

\* metadata_raw = bytes(buffer[metadata_start:metadata_end])
MetadataRaw(buffer, data_end) == Slice(buffer, data_end, Min(data_end + 40, Len(buffer)))

\* ExamMatch without the test of the number.
ExamMatchAnyNumber(metadata, i) ==
    /\ At(metadata, i) = 0
    /\ At(metadata, i + 1) = 0
    /\ At(metadata, i + 2) = 0
    /\ At(metadata, i + 3) = GS

\* The test of _extract_exam_number at offset i: the 00 00 00 GS pattern
\* followed by a number in 1..9999.
ExamMatch(metadata, i) ==
    /\ At(metadata, i) = 0
    /\ At(metadata, i + 1) = 0
    /\ At(metadata, i + 2) = 0
    /\ At(metadata, i + 3) = GS
    /\ 1 <= U16(At(metadata, i + 4), At(metadata, i + 5))
    /\ U16(At(metadata, i + 4), At(metadata, i + 5)) <= 9999

\* range(len(metadata) - 5)
ExamScanRange(metadata) == 0..(Len(metadata) - 5 - 1)

\* _extract_exam_number: (exam_number, payload_start) or (None, None)
ExtractExamNumber(metadata) ==
    IF \E i \in ExamScanRange(metadata) : ExamMatch(metadata, i)
    THEN LET i == CHOOSE k \in ExamScanRange(metadata) :
                    /\ ExamMatch(metadata, k)
                    /\ \A j \in ExamScanRange(metadata) : j < k => ~ExamMatch(metadata, j)
         IN [exam_number |-> U16(At(metadata, i + 4), At(metadata, i + 5)),
             payload_start |-> i + 6]
    ELSE [exam_number |-> None, payload_start |-> None]

\* hw_baseline: metadata_raw[1] | (metadata_raw[2] << 8) after a leading GS
HwBaseline(metadata_raw) ==
    IF Len(metadata_raw) >= 3 /\ At(metadata_raw, 0) = GS
    THEN U16(At(metadata_raw, 1), At(metadata_raw, 2))
    ELSE None

\* HwRecordPresent with a record two bytes short.
HwRecordPresentShort(metadata_raw, payload_start) ==
    payload_start # None /\ payload_start + 8 <= Len(metadata_raw)

\* payload_start is not None and payload_start + 10 <= len(metadata_raw)
HwRecordPresent(metadata_raw, payload_start) ==
    payload_start # None /\ payload_start + 10 <= Len(metadata_raw)

\* ExtractHwMetadata with hw_end_index taken for the peak index.
ExtractHwMetadataEndAtPeak(block, payload) ==
    [block EXCEPT
        !.hw_To_samples = At(payload, 0),
        !.hw_Th_samples = At(payload, 1),
        !.hw_amplitude = U16(At(payload, 2), At(payload, 3)),
        !.hw_Fo_x100 = U16(At(payload, 4), At(payload, 5)),
        !.hw_peak_index = At(payload, 6) + 2 * SR - 1,
        !.hw_Ti = At(payload, 7),
        !.hw_flags = At(payload, 8),
        !.hw_end_index = At(payload, 6) + 2 * SR - 1]

\* _extract_hw_metadata
ExtractHwMetadata(block, payload) ==
    [block EXCEPT
        !.hw_To_samples = At(payload, 0),
        !.hw_Th_samples = At(payload, 1),
        !.hw_amplitude = U16(At(payload, 2), At(payload, 3)),
        !.hw_Fo_x100 = U16(At(payload, 4), At(payload, 5)),
        !.hw_peak_index = At(payload, 6) + 2 * SR - 1,
        !.hw_Ti = At(payload, 7),
        !.hw_flags = At(payload, 8),
        !.hw_end_index = (At(payload, 6) + 2 * SR - 1) + At(payload, 0)]

\* FindNextBlockStart that never stops at a marker.
FindNextBlockStartAtEnd(buffer, start) == Len(buffer)

\* _find_next_block_start
FindNextBlockStart(buffer, start) ==
    IF \E i \in start..(Len(buffer) - 1) : At(buffer, i) = ESC
    THEN CHOOSE i \in start..(Len(buffer) - 1) :
            At(buffer, i) = ESC /\ \A j \in start..(i - 1) : At(buffer, j) # ESC
    ELSE Len(buffer)

\* ParseResult; block is << >> for None and << b >> for a block b.
ParseResult(block, bytes_consumed, needs_more_data) ==
    [block |-> block, bytes_consumed |-> bytes_consumed, needs_more_data |-> needs_more_data]

\* Lines 103-127 of _try_parse_block: the block built from a complete frame.
BuildBlock(buffer, esc_pos) ==
    LET data_start == DataStart(esc_pos)
        data_end == DataEnd(buffer, esc_pos)
        samples == ExtractSamples(buffer, data_start, data_end)
        metadata_raw == MetadataRaw(buffer, data_end)
        ex == ExtractExamNumber(metadata_raw)
        block == [PPGBlock(At(buffer, esc_pos + 2), samples, ex.exam_number, metadata_raw)
                    EXCEPT !.hw_baseline = HwBaseline(metadata_raw)]
    IN IF HwRecordPresent(metadata_raw, ex.payload_start)
       THEN ExtractHwMetadata(block, From(metadata_raw, ex.payload_start))
       ELSE block

\* NoMarkerResult that consumes nothing.
NoMarkerResultKeeps(buffer) == ParseResult(<< >>, 0, FALSE)

\* return ParseResult(None, len(buffer), False): no marker in the buffer
NoMarkerResult(buffer) == ParseResult(<< >>, Len(buffer), FALSE)

\* return ParseResult(None, 0, True)
NeedMoreResult == ParseResult(<< >>, 0, TRUE)

\* SkipMarkerResult that skips the byte after the marker too.
SkipMarkerResultTwo(esc_pos) == ParseResult(<< >>, esc_pos + 2, FALSE)

\* SkipMarkerResult that skips the 9 bytes of a header.
SkipMarkerResultHeader(esc_pos) == ParseResult(<< >>, esc_pos + 9, FALSE)

\* return ParseResult(None, esc_pos + 1, False): skip the marker
SkipMarkerResult(esc_pos) == ParseResult(<< >>, esc_pos + 1, FALSE)

\* _try_parse_block
TryParseBlock(buffer) ==
    LET esc_pos == Index(buffer, ESC)
    IN IF esc_pos = None THEN NoMarkerResult(buffer)
       ELSE IF HeaderIncomplete(buffer, esc_pos) THEN NeedMoreResult
       ELSE IF ~IsValidHeader(buffer, esc_pos) THEN SkipMarkerResult(esc_pos)
       ELSE IF PayloadIncomplete(buffer, DataEnd(buffer, esc_pos)) THEN NeedMoreResult
       ELSE IF MetadataIncomplete(buffer, DataEnd(buffer, esc_pos)) THEN NeedMoreResult
       ELSE ParseResult(<< BuildBlock(buffer, esc_pos) >>,
                        FindNextBlockStart(buffer, DataEnd(buffer, esc_pos)), FALSE)

\* LoopContinues that also stops once a block was found.
LoopContinuesUntilBlock(result) ==
    ~result.needs_more_data /\ result.bytes_consumed # 0 /\ result.block = << >>

\* LoopContinues without the break on zero bytes consumed.
LoopContinuesOnZero(result) == ~result.needs_more_data

\* The loop of parse_buffer goes round again unless it hits one of its breaks.
LoopContinues(result) == ~result.needs_more_data /\ result.bytes_consumed # 0

RECURSIVE ParseLoop(_, _)
\* The while loop of parse_buffer from the state (blocks, remaining).
ParseLoop(blocks, remaining) ==
    LET result == TryParseBlock(remaining)
    IN IF result.needs_more_data THEN [blocks |-> blocks, remaining |-> remaining]
       ELSE IF LoopContinues(result)
            THEN ParseLoop(blocks \o result.block, From(remaining, result.bytes_consumed))
            ELSE [blocks |-> blocks \o result.block,
                  remaining |-> From(remaining, result.bytes_consumed)]

\* parse_buffer as a function of the buffer: (blocks, remaining)
ParseBuffer(buffer) == ParseLoop(<< >>, buffer)

(***************************************************************************)
(* analysis.py: calculate_parameters.  The code computes in binary         *)
(* floating point on integer samples; here every float is the exact        *)
(* rational <<numerator, denominator>> (denominator > 0, lowest terms),    *)
(* and NoneQ stands for an absent value.                                   *)
(***************************************************************************)
RECURSIVE Gcd(_, _)
Gcd(a, b) == IF b = 0 THEN a ELSE Gcd(b, a % b)

Q(n, d) == LET g == Gcd(Abs(n), d) IN << n \div g, d \div g >>
NoneQ == << 0, 0 >>
QInt(n) == << n, 1 >>
QAdd(a, b) == Q(a[1] * b[2] + b[1] * a[2], a[2] * b[2])
QSub(a, b) == Q(a[1] * b[2] - b[1] * a[2], a[2] * b[2])
QMul(a, b) == Q(a[1] * b[1], a[2] * b[2])
\* a / b for b > 0
QDiv(a, b) == Q(a[1] * b[2], a[2] * b[1])
QLt(a, b) == a[1] * b[2] < b[1] * a[2]
QLe(a, b) == a[1] * b[2] <= b[1] * a[2]
QMax(a, b) == IF QLt(a, b) THEN b ELSE a

\* int(x) for x >= 0
Floor(a) == a[1] \div a[2]

\* round(x, 1) and round(x, 0): to the nearest multiple of 1/unit, a tie
\* going to the even multiple.
Round(a, unit) ==
    LET n == a[1] * unit
        f == n \div a[2]
        r == n - f * a[2]
    IN IF 2 * r < a[2] THEN Q(f, unit)
       ELSE IF 2 * r > a[2] THEN Q(f + 1, unit)
       ELSE IF f % 2 = 0 THEN Q(f, unit) ELSE Q(f + 1, unit)

\* np.median
Median(s) ==
    LET t == Sorted(s)
        n == Len(t)
    IN IF n % 2 = 1 THEN QInt(t[(n \div 2) + 1])
       ELSE Q(t[n \div 2] + t[(n \div 2) + 1], 2)

\* np.argmax over s[lo:hi]: the offset of the first largest element
ArgMax(s, lo, hi) ==
    (CHOOSE i \in lo..(hi - 1) :
        /\ \A j \in lo..(hi - 1) : At(s, j) <= At(s, i)
        /\ \A j \in lo..(i - 1) : At(s, j) < At(s, i)) - lo

\* AnalysisParams
SMOOTHING_WINDOW == 5
LOW_AMPLITUDE_VO_THRESHOLD == 3
TI_DELTA_THRESHOLD == 10
TI_FAST_WINDOW == 3
TI_SLOW_WINDOW == 6
TI_MAX_SECONDS == 120
MAX_EXTRAPOLATION_TIME == 120
EXTRAPOLATION_FIT_SAMPLES == 10
THRESHOLD_TH == Q(50, 100)
THRESHOLD_TO == Q(3, 100)

\* The minimum number of samples of calculate_parameters
MinSamples == 40

\* TooFewSamples with the limit one lower.
TooFewSamplesOff(samples) == Len(samples) < MinSamples - 1

\* if len(samples) < 40
TooFewSamples(samples) == Len(samples) < MinSamples

\* has_hw
HasHw(block) ==
    /\ block.hw_baseline # None
    /\ block.hw_peak_index # None
    /\ block.hw_amplitude # None

\* initial_baseline
InitialBaseline(block) ==
    IF HasHw(block) THEN QInt(block.hw_baseline)
    ELSE Median(Slice(block.samples, 0, 10))

\* stable_baseline
StableBaseline(block) ==
    Median(From(block.samples, Len(block.samples) - 20))

\* np.convolve(samples, np.ones(window)/window, mode='valid'), as the window
\* sums (window times the moving average)
Smoothed(samples, window) ==
    [k \in 1..(Len(samples) - window + 1) |->
        LET WSum[j \in 0..window] ==
                IF j = 0 THEN 0 ELSE WSum[j - 1] + samples[k + j - 1]
        IN WSum[window]]

\* Section 2 of calculate_parameters, software branch: the peak index, or
\* None where the code returns None.
SoftwarePeak(samples, initial_baseline) ==
    LET window == SMOOTHING_WINDOW
        global_max == MaxOf(samples)
        estimated_amplitude == QSub(QInt(global_max), initial_baseline)
        estimated_vo == IF initial_baseline[1] > 0
                        THEN QMul(QDiv(estimated_amplitude, initial_baseline), QInt(100))
                        ELSE QInt(0)
        exercise_start == 5
        exercise_end == Min(25 * SR, Len(samples) - 10)
        long == Len(samples) > window
        smoothed == IF long THEN Smoothed(samples, window) ELSE samples
        offset == IF long THEN (window - 1) \div 2 ELSE 0
        search_start == IF 10 > Len(smoothed) \div 10 THEN 10 ELSE Len(smoothed) \div 10
        search_end == (Len(smoothed) * 9) \div 10
    IN IF exercise_end <= exercise_start THEN None
       ELSE IF QLt(estimated_vo, QInt(LOW_AMPLITUDE_VO_THRESHOLD))
       THEN Min(exercise_start + ArgMax(samples, exercise_start, exercise_end),
                Len(samples) - 1)
       ELSE IF search_start >= search_end THEN None
       ELSE Min(ArgMax(smoothed, search_start, search_end) + search_start + offset,
                Len(samples) - 1)

\* PeakIndex without the hardware branch.
PeakIndexSoftware(block, initial_baseline) ==
    SoftwarePeak(block.samples, initial_baseline)

\* Section 2 of calculate_parameters
PeakIndex(block, initial_baseline) ==
    IF HasHw(block) /\ block.hw_peak_index < Len(block.samples)
    THEN block.hw_peak_index
    ELSE SoftwarePeak(block.samples, initial_baseline)

\* _find_crossing(samples, level, direction='down')
FindCrossing(samples, level) ==
    LET Crosses(i) == /\ QLe(level, QInt(At(samples, i)))
                      /\ QLt(QInt(At(samples, i + 1)), level)
        idx == 0..(Len(samples) - 2)
    IN IF \E i \in idx : Crosses(i)
       THEN LET i == CHOOSE k \in idx : Crosses(k) /\ \A j \in 0..(k - 1) : ~Crosses(j)
                frac == QDiv(QSub(QInt(At(samples, i)), level),
                             QInt(At(samples, i) - At(samples, i + 1)))
            IN QAdd(QInt(i), frac)
       ELSE NoneQ

\* _extrapolate_crossing
ExtrapolateCrossing(samples, level) ==
    IF Len(samples) < 10 THEN NoneQ
    ELSE LET half == Len(samples) \div 2
             n_fit0 == Min(EXTRAPOLATION_FIT_SAMPLES, half)
             n_fit == IF n_fit0 < 5 THEN 5 ELSE n_fit0
             last_value == At(samples, Len(samples) - 1)
             first_value == At(samples, Len(samples) - n_fit)
             slope == Q(last_value - first_value, n_fit - 1)
             max_samples == QInt(MAX_EXTRAPOLATION_TIME * SR)
             remaining == QSub(QInt(last_value), level)
         IN IF slope[1] >= 0 THEN max_samples
            ELSE IF remaining[1] <= 0 THEN QInt(Len(samples) - 1)
            ELSE LET additional_samples == QDiv(remaining, << -slope[1], slope[2] >>)
                     crossing_idx == QAdd(QInt(Len(samples) - 1), additional_samples)
                 IN IF QLt(max_samples, crossing_idx) THEN max_samples ELSE crossing_idx

\* Lines 172-176 of calculate_parameters: To in seconds from the recovery
\* segment and level_To, NoneQ for None.
SoftwareTo(recovery_samples, level_To) ==
    LET crossing == FindCrossing(recovery_samples, level_To)
        To_samples_val == IF crossing = NoneQ
                          THEN ExtrapolateCrossing(recovery_samples, level_To)
                          ELSE crossing
    IN IF To_samples_val = NoneQ \/ To_samples_val[1] = 0 THEN NoneQ
       ELSE QDiv(To_samples_val, QInt(SR))

\* _calculate_ti
CalculateTi(samples, peak_idx, peak_value, baseline) ==
    LET amplitude == QSub(QInt(peak_value), baseline)
        offset_3sec == peak_idx + TI_FAST_WINDOW * SR
        delta_3sec == peak_value - At(samples, offset_3sec)
        window0 == IF delta_3sec >= TI_DELTA_THRESHOLD THEN TI_FAST_WINDOW
                   ELSE TI_SLOW_WINDOW
        short == peak_idx + window0 * SR >= Len(samples)
        target_idx == IF short THEN Len(samples) - 1 ELSE peak_idx + window0 * SR
        window_periods == IF short THEN Q(target_idx - peak_idx, SR) ELSE QInt(window0)
        denominator == peak_value - At(samples, target_idx)
        Ti == QDiv(QMul(window_periods, amplitude), QInt(denominator))
    IN IF amplitude[1] <= 0 THEN NoneQ
       ELSE IF offset_3sec >= Len(samples) THEN NoneQ
       ELSE IF denominator <= 0 THEN QInt(TI_MAX_SECONDS)
       ELSE IF QLt(QInt(TI_MAX_SECONDS), Ti) THEN QInt(TI_MAX_SECONDS)
       ELSE Ti

\* The sum of samples[lo:hi]
SumOf(samples, lo, hi) ==
    LET S[j \in lo..hi] == IF j = lo THEN 0 ELSE S[j - 1] + At(samples, j - 1)
    IN S[hi]

\* _calculate_fo
CalculateFo(samples, peak_idx, end_idx0, baseline) ==
    IF end_idx0 <= peak_idx \/ baseline[1] <= 0 THEN QInt(0)
    ELSE LET end_idx == Min(end_idx0, Len(samples) - 1)
             n_samples == end_idx - peak_idx
             area == QSub(QInt(SumOf(samples, peak_idx, end_idx)),
                          QMul(QInt(n_samples), baseline))
             last_excess == QSub(QInt(At(samples, end_idx)), baseline)
             correction == QDiv(QMul(last_excess, QInt(n_samples)), QInt(2))
             adjusted == QSub(area, correction)
             Fo == QDiv(QMul(adjusted, QInt(100)), QMul(baseline, QInt(SR)))
         IN QMax(Fo, QInt(0))

\* ExerciseStartIndex with the scan going on past the peak.
ExerciseStartIndexWholeBlock(samples, peak_idx, exercise_threshold) ==
    LET Reached(i) == QLe(exercise_threshold, QInt(At(samples, i)))
        idx == 0..(Len(samples) - 1)
    IN IF \E i \in idx : Reached(i)
       THEN CHOOSE i \in idx : Reached(i) /\ \A j \in 0..(i - 1) : ~Reached(j)
       ELSE 0

\* Section 6 of calculate_parameters: exercise_start_index
ExerciseStartIndex(samples, peak_idx, exercise_threshold) ==
    LET Reached(i) == QLe(exercise_threshold, QInt(At(samples, i)))
        idx == 0..(peak_idx - 1)
    IN IF \E i \in idx : Reached(i)
       THEN CHOOSE i \in idx : Reached(i) /\ \A j \in 0..(i - 1) : ~Reached(j)
       ELSE 0

\* PPGParameters as calculate_parameters builds it; tau, the least-squares
\* fit computed last, depends on no other field and no other field on it,
\* and is left out.
PPGParameters(To, Th, Ti, Vo, Fo, peak_index, To_end_index, exercise_start_index, baseline_value, peak_value) ==
    [To |-> To, Th |-> Th, Ti |-> Ti, Vo |-> Vo, Fo |-> Fo,
     peak_index |-> peak_index, To_end_index |-> To_end_index,
     exercise_start_index |-> exercise_start_index,
     baseline_value |-> baseline_value, peak_value |-> peak_value]

\* round(To, 1), round(Th, 1), round(Vo, 1)
RoundTenths(x) == Round(x, 10)

\* round(Ti, 0), round(Fo, 0)
RoundUnits(x) == Round(x, 1)

\* calculate_parameters: << >> for None, << p >> for the parameters p.
CalculateParameters(block) ==
    LET samples == block.samples
        n == Len(samples)
        has_hw == HasHw(block)
        initial_baseline == InitialBaseline(block)
        stable_baseline == StableBaseline(block)
        peak_idx == PeakIndex(block, initial_baseline)
        peak_value == At(samples, peak_idx)
        amplitude_vo == IF has_hw /\ block.hw_amplitude > 0
                        THEN QInt(block.hw_amplitude)
                        ELSE QSub(QInt(peak_value), initial_baseline)
        Vo == QMul(QDiv(amplitude_vo, initial_baseline), QInt(100))
        recovery_start == peak_idx
        recovery_samples == From(samples, recovery_start)
        \* 4a. Th
        level_Th == QAdd(initial_baseline, QMul(amplitude_vo, THRESHOLD_TH))
        crossing_Th == FindCrossing(recovery_samples, level_Th)
        Th == IF has_hw /\ block.hw_Th_samples # None /\ block.hw_Th_samples > 0
              THEN Q(block.hw_Th_samples, SR)
              ELSE IF crossing_Th = NoneQ THEN Q(Len(recovery_samples) - 1, SR)
              ELSE QDiv(crossing_Th, QInt(SR))
        \* 4b. Ti
        Ti == IF has_hw /\ block.hw_Ti # None /\ block.hw_Ti > 0
              THEN QInt(block.hw_Ti)
              ELSE CalculateTi(samples, peak_idx, peak_value, initial_baseline)
        \* 4c. To
        hw_To == has_hw /\ block.hw_To_samples # None /\ block.hw_To_samples > 0
        max_baseline == QMax(stable_baseline, initial_baseline)
        no_ref == QLe(QInt(peak_value), max_baseline)
        reference_baseline == IF no_ref THEN initial_baseline ELSE max_baseline
        amplitude_ref == IF no_ref THEN amplitude_vo
                         ELSE QSub(QInt(peak_value), max_baseline)
        level_To == QAdd(reference_baseline, QMul(amplitude_ref, THRESHOLD_TO))
        crossing_To == FindCrossing(recovery_samples, level_To)
        To_samples_val == IF hw_To THEN QInt(block.hw_To_samples)
                          ELSE IF crossing_To = NoneQ
                          THEN ExtrapolateCrossing(recovery_samples, level_To)
                          ELSE crossing_To
        To == IF hw_To THEN Q(block.hw_To_samples, SR)
              ELSE IF To_samples_val = NoneQ \/ To_samples_val[1] = 0 THEN NoneQ
              ELSE QDiv(To_samples_val, QInt(SR))
        \* 5. Fo
        fo_end_idx == Min(IF has_hw /\ block.hw_To_samples # None
                          THEN recovery_start + block.hw_To_samples
                          ELSE IF To_samples_val # NoneQ
                          THEN recovery_start + Floor(To_samples_val)
                          ELSE n - 1,
                          n - 1)
        Fo == IF has_hw /\ block.hw_Fo_x100 # None /\ block.hw_Fo_x100 > 0
              THEN Q(block.hw_Fo_x100, 100)
              ELSE CalculateFo(samples, recovery_start, fo_end_idx, initial_baseline)
        \* 6. indices
        To_end_index == IF has_hw /\ block.hw_end_index # None
                        THEN Min(block.hw_end_index, n - 1)
                        ELSE IF To_samples_val # NoneQ
                        THEN Min(recovery_start + Floor(To_samples_val), n - 1)
                        ELSE n - 1
        exercise_threshold == QAdd(initial_baseline, QMul(amplitude_vo, Q(10, 100)))
    IN IF TooFewSamples(samples) THEN << >>
       ELSE IF peak_idx = None THEN << >>
       ELSE IF amplitude_vo[1] <= 0 \/ initial_baseline[1] <= 0 THEN << >>
       ELSE IF QLt(Vo, Q(5, 10)) THEN << >>
       ELSE IF Len(recovery_samples) < 10 THEN << >>
       ELSE IF Th = NoneQ \/ Ti = NoneQ \/ To = NoneQ THEN << >>
       ELSE IF To[1] <= 0 \/ Th[1] <= 0 \/ Ti[1] <= 0 THEN << >>
       ELSE << PPGParameters(RoundTenths(To), RoundTenths(Th), RoundUnits(Ti),
                             RoundTenths(Vo), RoundUnits(Fo),
                             peak_idx, To_end_index,
                             ExerciseStartIndex(samples, peak_idx, exercise_threshold),
                             initial_baseline, peak_value) >>

(***************************************************************************)
(* The indexed reads of _try_parse_block, as pairs <<index, length of the  *)
(* sequence read>>, along the path the code takes on the buffer.  A read   *)
(* with index >= length raises IndexError.                                 *)
(***************************************************************************)
\* The reads of _is_valid_header; "and" stops at the first failed test.
HeaderReads(buffer, pos) ==
    LET L == Len(buffer)
    IN {<<pos + 1, L>>}
       \cup (IF At(buffer, pos + 1) = LCHAR THEN {<<pos + 3, L>>} ELSE {})
       \cup (IF At(buffer, pos + 1) = LCHAR /\ At(buffer, pos + 3) = EOT
             THEN {<<pos + 4, L>>} ELSE {})
       \cup (IF At(buffer, pos + 1) = LCHAR /\ At(buffer, pos + 3) = EOT
                /\ At(buffer, pos + 4) = SOH
             THEN {<<pos + 5, L>>} ELSE {})

\* The reads of _extract_exam_number; the scan stops at the first match.
ExamReads(metadata) ==
    LET M == Len(metadata)
        Scanned(i) == \A j \in ExamScanRange(metadata) : j < i => ~ExamMatch(metadata, j)
        Zeros(i, k) == \A d \in 0..(k - 1) : At(metadata, i + d) = 0
    IN UNION {
          {<<i, M>>}
          \cup (IF Zeros(i, 1) THEN {<<i + 1, M>>} ELSE {})
          \cup (IF Zeros(i, 2) THEN {<<i + 2, M>>} ELSE {})
          \cup (IF Zeros(i, 3) THEN {<<i + 3, M>>} ELSE {})
          \cup (IF Zeros(i, 3) /\ At(metadata, i + 3) = GS
                THEN {<<i + 4, M>>, <<i + 5, M>>} ELSE {})
          : i \in {k \in ExamScanRange(metadata) : Scanned(k)}}

\* The reads of lines 103-127 on a complete frame.
BlockReads(buffer, esc_pos) ==
    LET L == Len(buffer)
        data_start == DataStart(esc_pos)
        data_end == DataEnd(buffer, esc_pos)
        metadata_raw == MetadataRaw(buffer, data_end)
        M == Len(metadata_raw)
        ex == ExtractExamNumber(metadata_raw)
    IN UNION {{<<i, L>>, <<i + 1, L>>} :
                i \in {k \in data_start..(data_end - 1) :
                         (k - data_start) % 2 = 0 /\ SampleReadable(buffer, k)}}
       \cup ExamReads(metadata_raw)
       \cup (IF M >= 3 THEN {<<0, M>>} ELSE {})
       \cup (IF M >= 3 /\ At(metadata_raw, 0) = GS THEN {<<1, M>>, <<2, M>>} ELSE {})
       \cup (IF HwRecordPresent(metadata_raw, ex.payload_start)
             THEN {<<k, M - ex.payload_start>> : k \in 0..8} ELSE {})

Reads(buffer) ==
    LET esc_pos == Index(buffer, ESC)
        L == Len(buffer)
    IN IF esc_pos = None \/ HeaderIncomplete(buffer, esc_pos) THEN {}
       ELSE IF ~IsValidHeader(buffer, esc_pos) THEN HeaderReads(buffer, esc_pos)
       ELSE HeaderReads(buffer, esc_pos)
            \cup {<<esc_pos + 2, L>>, <<esc_pos + 7, L>>, <<esc_pos + 8, L>>}
            \cup (IF PayloadIncomplete(buffer, DataEnd(buffer, esc_pos))
                     \/ MetadataIncomplete(buffer, DataEnd(buffer, esc_pos))
                  THEN {}
                  ELSE BlockReads(buffer, esc_pos))

\* _try_parse_block raises IndexError on the buffer.
Raises(buffer) == \E r \in Reads(buffer) : r[1] < 0 \/ r[1] >= r[2]

(***************************************************************************)
(* The byte streams the device sends: noise and false markers, then a      *)
(* frame (header, payload, trailing metadata), then what follows it.       *)
(***************************************************************************)
\* Bounds of the model.
MaxJunk == 2
MaxSamples == 2
MaxChunks == 2

\* Header (9 bytes) of a frame with the given label, unused byte and count.
Header(label, unused, n) ==
    << ESC, LCHAR, label, EOT, SOH, GS, unused, n % 256, n \div 256 >>

RECURSIVE Payload(_)
\* The samples as little-endian 16-bit words.
Payload(samples) ==
    IF samples = << >> THEN << >>
    ELSE << Head(samples) % 256, Head(samples) \div 256 >> \o Payload(Tail(samples))

Frame(label, unused, samples, meta) ==
    Header(label, unused, Len(samples)) \o Payload(samples) \o meta

\* Sample values; 6917 = 0x1B05 and 283 = 0x011B carry a marker byte.
SampleAt(i) == << 6917, 283, 4095 >>[((i - 1) % 3) + 1]
SampleLists == {[i \in 1..n |-> SampleAt(i)] : n \in 0..MaxSamples}

\* Noise bytes that look like the continuation of a header.
JunkAt(i) == << LCHAR, 226, EOT, SOH, GS, 0, 0, 0 >>[((i - 1) % 8) + 1]
Junk(j) == [i \in 1..j |-> JunkAt(i)]
Leads == {Junk(j) : j \in 0..MaxJunk} \cup {<< ESC >> \o Junk(j) : j \in 0..MaxJunk}

\* The 10-byte hardware record: To=12, Th=6, amplitude=300, Fo=1.00,
\* peak_raw=20, Ti=3, flags=0, EOT.
HwRecord == << 12, 6, 44, 1, 100, 0, 20, 3, 0, EOT >>
Filler(n) == [i \in 1..n |-> 5]

\* Trailing metadata: none; the exam-id pattern alone; baseline, exam id 7
\* and hardware record; exam id 27, whose low byte is the marker byte; an
\* out-of-range id followed by id 9; a hardware record whose Ti byte is the
\* marker byte; the full record followed by filler and
\* a marker byte past the 40-byte window; the exam id so late that its
\* hardware record crosses the end of the window.
MetaNone == << >>
MetaShort == << 0, 0, 0, GS, 7, 0 >>
MetaFull == << GS, 16, 14, 0, 0, 0, GS, 7, 0 >> \o HwRecord
MetaEscId == << 0, 0, 0, GS, 27, 0 >> \o HwRecord
MetaSkipId == << 0, 0, 0, GS, 0, 0, 0, GS, 9, 0 >>
MetaEscTi == << 0, 0, 0, GS, 7, 0, 12, 6, 44, 1, 100, 0, 20, 27, 0, EOT >>
MetaLong == MetaFull \o Filler(21) \o << ESC, 0 >>
MetaLate == Filler(28) \o << 0, 0, 0, GS, 7, 0 >> \o HwRecord
CoreMetas == {MetaNone, MetaShort, MetaFull, MetaEscId, MetaSkipId, MetaEscTi}
LongMetas == {MetaLong, MetaLate}

\* What follows the frame: nothing, or a second complete frame.
Tails == {<< >>, Header(225, 0, 0) \o Filler(10)}

Scenario(kind, lead, label, unused, samples, meta, tail) ==
    [kind |-> kind, lead |-> lead, label |-> label, unused |-> unused,
     samples |-> samples, meta |-> meta, tail |-> tail]

\* Frames after every lead and before every tail; frames whose label and
\* unused byte are the marker byte; frames with long metadata; noise alone.
Scenarios ==
    {Scenario("frame", l, 226, 0, sm, m, t) :
        l \in Leads, sm \in SampleLists, m \in CoreMetas, t \in Tails}
    \cup
    {Scenario("frame", << >>, ESC, ESC, sm, MetaFull, << >>) : sm \in SampleLists}
    \cup
    {Scenario("frame", << >>, 226, 0, sm, m, << >>) : sm \in SampleLists, m \in LongMetas}
    \cup
    {Scenario("noise", l, 0, 0, << >>, << >>, t) : l \in Leads, t \in Tails}

StreamOf(s) ==
    IF s.kind = "frame"
    THEN s.lead \o Frame(s.label, s.unused, s.samples, s.meta) \o s.tail
    ELSE s.lead \o s.tail

(***************************************************************************)
(* State.                                                                  *)
(***************************************************************************)
VARIABLES
    scn,        \* what the device sends, by parts
    stream,     \* the bytes the device sends
    fed,        \* how many of them the receiver was fed
    nfeeds,     \* the number of feed calls made
    buffer,     \* DataReceiver.buffer
    blocks,     \* DataReceiver.blocks
    pc,         \* "idle", "parsing" (inside parse_buffer) or "raised"
    input,      \* the buffer passed to the current or last parse_buffer call
    remaining,  \* parse_buffer's local remaining
    new_blocks, \* parse_buffer's local blocks
    scanned,    \* the buffer passed to the last _try_parse_block call
    result,     \* the last ParseResult
    iters,      \* iterations of the loop made by the current or last call
    tin,        \* a sample list given to the block constructor
    tblk,       \* << >> or the block constructed from tin
    tre,        \* << >> or the block constructed again from tblk's samples
    cin,        \* the curve and metadata of a frame given to the decoder
    cblk,       \* << >> or the block decoded from that frame
    cres,       \* << >> or << r >>, r the return of calculate_parameters(cblk)
    data_buffer,  \* the reader application's data_buffer
    ppg_blocks,   \* the reader application's ppg_blocks
    running,      \* the reader application's running flag
    lock,         \* DataReceiver._lock: 0 when free, or the thread holding it
    tpc,          \* per thread: where it is in its DataReceiver call
    top,          \* per thread: the method it called last
    tdata,        \* per thread: the data argument of its feed call
    tnew,         \* per thread: the new blocks not yet appended
    got,          \* the list returned by the last get_blocks
    pending_blocks, \* CaptureView._pending_blocks: the on_block calls made
    order,        \* the chunks fed since the last clear, in lock order
    conn_running, \* TCPConnection.running
    connected,    \* TCPConnection.connected
    socket,       \* TCPConnection.socket: "open", "closed" (close() called) or "None"
    lpc,          \* where the receive thread is in _receive_loop
    dpc,          \* where the caller of disconnect() is
    data,         \* the chunk recv returned last, by arrival number (0: none)
    arrived,      \* the number of non-empty chunks recv has returned
    acks,         \* the chunks answered with an ACK byte, in send order
    handed,       \* the chunks on_data was called with, in call order
    notified,     \* the on_disconnect calls, each by the path that made it
    rin,          \* a recovery segment and a To level, by shape
    to_val,       \* << >> or << To >>, To as lines 172-176 compute it
    vpc,          \* the connection thread in _on_block_received
    vblock,       \* the block _on_block_received was called with
    narrived,     \* the number of _on_block_received calls
    after_queue,  \* the callbacks given to self.after(0, ...), oldest first
    listbox,      \* the rows of blocks_listbox
    saved         \* the _save_exam calls past the two early returns

dvars == << scn, stream, fed, nfeeds, buffer, blocks, pc, input, remaining,
            new_blocks, scanned, result, iters >>
tvars == << tin, tblk, tre >>
avars == << cin, cblk, cres >>
uvars == << data_buffer, ppg_blocks, running >>
rvars == << lock, tpc, top, tdata, tnew, got, pending_blocks, order >>
cvars == << conn_running, connected, socket, lpc, dpc, data, arrived, acks, handed,
           notified >>
evars == << rin, to_val >>
\* The variables of the parts modelled after the connection.
vvars == << vpc, vblock, narrived, after_queue, listbox, saved >>
zvars == << evars, vvars >>
vars == << scn, stream, fed, nfeeds, buffer, blocks, pc, input, remaining,
           new_blocks, scanned, result, iters, tin, tblk, tre, cin, cblk, cres,
           data_buffer, ppg_blocks, running,
           lock, tpc, top, tdata, tnew, got, pending_blocks, order,
           conn_running, connected, socket, lpc, dpc, data, arrived, acks, handed,
           notified, rin, to_val,
           vpc, vblock, narrived, after_queue, listbox, saved >>
\* The variables the decoder leaves alone, those block construction does,
\* those calculate_parameters does and those the reader application does.
xdvars == << tvars, avars, uvars, rvars, cvars, zvars >>
xtvars == << dvars, avars, uvars, rvars, cvars, zvars >>
xavars == << dvars, tvars, uvars, rvars, cvars, zvars >>
xuvars == << tvars, avars, rvars, cvars, zvars >>

\* DataReceiver.__init__ and no parse made yet.
InitReceiver ==
    /\ fed = 0
    /\ nfeeds = 0
    /\ buffer = << >>
    /\ blocks = << >>
    /\ pc = "idle"
    /\ input = << >>
    /\ remaining = << >>
    /\ new_blocks = << >>
    /\ scanned = << >>
    /\ result = ParseResult(<< >>, 0, FALSE)
    /\ iters = 0

InitTrimIdle ==
    /\ tin = << >>
    /\ tblk = << >>
    /\ tre = << >>

\* No frame given to calculate_parameters.
InitCalcIdle ==
    /\ cin = [kind |-> "flat", n |-> 0, meta |-> << >>]
    /\ cblk = << >>
    /\ cres = << >>

\* The reader application after __init__ and connect.
InitUiIdle ==
    /\ data_buffer = << >>
    /\ ppg_blocks = << >>
    /\ running = TRUE

\* The threads calling the DataReceiver.
Threads == {1, 2}

\* No thread inside a DataReceiver method, the lock free, no callback made.
InitThreads ==
    /\ lock = 0
    /\ tpc = [t \in Threads |-> "idle"]
    /\ top = [t \in Threads |-> "none"]
    /\ tdata = [t \in Threads |-> << >>]
    /\ tnew = [t \in Threads |-> << >>]
    /\ got = << >>
    /\ pending_blocks = << >>
    /\ order = << >>

\* TCPConnection.__init__: not connected, no receive thread.
InitConnIdle ==
    /\ conn_running = FALSE
    /\ connected = FALSE
    /\ socket = "None"
    /\ lpc = "done"
    /\ dpc = "idle"
    /\ data = 0
    /\ arrived = 0
    /\ acks = << >>
    /\ handed = << >>
    /\ notified = << >>

\* No recovery segment given to the To computation.
InitToIdle ==
    /\ rin = [shape |-> "none", n |-> 0, last |-> 0, level |-> 0]
    /\ to_val = << >>

\* CaptureView.__init__: no block received, an empty listbox.
InitViewIdle ==
    /\ vpc = "idle"
    /\ vblock = 0
    /\ narrived = 0
    /\ after_queue = << >>
    /\ listbox = << >>
    /\ saved = << >>

InitRestIdle == InitToIdle /\ InitViewIdle

Init ==
    /\ scn \in {s \in Scenarios : StreamOf(s) # << >>}
    /\ stream = StreamOf(scn)
    /\ InitReceiver
    /\ InitTrimIdle
    /\ InitCalcIdle
    /\ InitUiIdle
    /\ InitThreads
    /\ InitConnIdle
    /\ InitRestIdle

\* DataReceiver.feed up to the call of parse_buffer: the next k bytes of the
\* stream arrive and are appended to the buffer.  The stream is delivered
\* whole in at most MaxChunks chunks.
Feed(k) ==
    /\ pc = "idle"
    /\ fed + k <= Len(stream)
    /\ fed + k = Len(stream) \/ nfeeds + 1 < MaxChunks
    /\ fed' = fed + k
    /\ nfeeds' = nfeeds + 1
    /\ buffer' = buffer \o SubSeq(stream, fed + 1, fed + k)
    /\ input' = buffer'
    /\ remaining' = buffer'
    /\ new_blocks' = << >>
    /\ scanned' = << >>
    /\ result' = ParseResult(<< >>, 0, FALSE)
    /\ iters' = 0
    /\ pc' = "parsing"
    /\ UNCHANGED << scn, stream, blocks, xdvars >>

\* One iteration of the loop of parse_buffer; on a break parse_buffer
\* returns and feed stores the remainder and appends the new blocks.
ParseStep ==
    /\ pc = "parsing"
    /\ scanned' = remaining
    /\ IF Raises(remaining)
       THEN /\ pc' = "raised"
            /\ UNCHANGED << buffer, blocks, remaining, new_blocks, result, iters >>
       ELSE /\ result' = TryParseBlock(remaining)
            /\ iters' = iters + 1
            /\ IF result'.needs_more_data
               THEN UNCHANGED << remaining, new_blocks >>
               ELSE /\ new_blocks' = new_blocks \o result'.block
                    /\ remaining' = From(remaining, result'.bytes_consumed)
            /\ IF LoopContinues(result')
               THEN /\ pc' = "parsing"
                    /\ UNCHANGED << buffer, blocks >>
               ELSE /\ pc' = "idle"
                    /\ buffer' = remaining'
                    /\ blocks' = blocks \o new_blocks'
    /\ UNCHANGED << scn, stream, fed, nfeeds, input, xdvars >>

Next ==
    \/ \E k \in 1..Len(stream) : Feed(k)
    \/ ParseStep

Spec == Init /\ [][Next]_vars

(***************************************************************************)
(* Block construction on its own: a block is constructed from a sample     *)
(* list (protocol.py line 120), and a block is constructed again from the  *)
(* samples of a block (DatabaseOps.channel_to_block).                      *)
(***************************************************************************)
\* Bound: the number of trailing samples chosen freely.
TailLen == 6

\* A quiet level, a level 100 above it and a spike.
TailVals == {1000, 1100, 5000}

\* The leading samples: flat, or a small sawtooth.
BaseLens == {7, 8, 9, 12, 19, 20}
BaseAt(kind, i) == IF kind = "flat" THEN 1000 ELSE 1000 + 10 * (i % 4)
Base(kind, k) == [i \in 1..k |-> BaseAt(kind, i)]

TrimInputs ==
    {Base(kind, k) \o t :
        kind \in {"flat", "saw"}, k \in BaseLens, t \in [1..TailLen -> TailVals]}

NoScenario == Scenario("noise", << >>, 0, 0, << >>, << >>, << >>)

InitTrim ==
    /\ scn = NoScenario
    /\ stream = << >>
    /\ InitReceiver
    /\ tin \in TrimInputs
    /\ tblk = << >>
    /\ tre = << >>
    /\ InitCalcIdle
    /\ InitUiIdle
    /\ InitThreads
    /\ InitConnIdle
    /\ InitRestIdle

\* PPGBlock(label_byte, samples, exam_number, metadata_raw)
Construct ==
    /\ tblk = << >>
    /\ tblk' = << PPGBlock(226, tin, None, << >>) >>
    /\ UNCHANGED << tin, tre, xtvars >>

\* struct.pack(f"<{len(samples)}H", *samples): two bytes a sample, low byte
\* first. zlib.compress and zlib.decompress are inverse on the bytes.
PackSamples(samples) ==
    [k \in 1..(2 * Len(samples)) |->
        IF k % 2 = 1 THEN samples[(k + 1) \div 2] % 256
        ELSE (samples[k \div 2] \div 256) % 256]

\* add_channel_from_block: the columns channel_to_block reads.
AddChannelFromBlock(block) ==
    [label_byte |-> block.label_byte,
     exam_number |-> block.exam_number,
     sample_count |-> Len(block.samples),
     samples_blob |-> PackSamples(block.samples),
     hw_baseline |-> block.hw_baseline,
     hw_peak_index |-> block.hw_peak_index,
     hw_end_index |-> block.hw_end_index,
     hw_amplitude |-> block.hw_amplitude,
     hw_To_samples |-> block.hw_To_samples,
     hw_Th_samples |-> block.hw_Th_samples,
     hw_Ti |-> block.hw_Ti,
     hw_Fo_x100 |-> block.hw_Fo_x100,
     hw_flags |-> block.hw_flags]

\* get_channel_samples
GetChannelSamples(channel) ==
    IF channel.samples_blob = << >> THEN << >>
    ELSE [k \in 1..(Len(channel.samples_blob) \div 2) |->
            U16(channel.samples_blob[2 * k - 1], channel.samples_blob[2 * k])]

\* channel_to_block
ChannelToBlock(channel) ==
    [PPGBlock(channel.label_byte, GetChannelSamples(channel), channel.exam_number, << >>) EXCEPT
        !.hw_baseline = channel.hw_baseline,
        !.hw_peak_index = channel.hw_peak_index,
        !.hw_end_index = channel.hw_end_index,
        !.hw_amplitude = channel.hw_amplitude,
        !.hw_To_samples = channel.hw_To_samples,
        !.hw_Th_samples = channel.hw_Th_samples,
        !.hw_Ti = channel.hw_Ti,
        !.hw_Fo_x100 = channel.hw_Fo_x100,
        !.hw_flags = channel.hw_flags]

\* The block is saved with add_channel_from_block and loaded back with
\* channel_to_block.
Reconstruct ==
    /\ tblk # << >>
    /\ tre = << >>
    /\ tre' = << ChannelToBlock(AddChannelFromBlock(tblk[1])) >>
    /\ UNCHANGED << tin, tblk, xtvars >>

NextTrim == Construct \/ Reconstruct

SpecTrim == InitTrim /\ [][NextTrim]_vars

(***************************************************************************)
(* calculate_parameters on decoded blocks: a frame of one curve and one    *)
(* trailing metadata is decoded (_try_parse_block lines 103-127) and the   *)
(* block is given to calculate_parameters.                                 *)
(***************************************************************************)
\* Bound: the curves have 39, 40 and 40 + CalcExtra samples.
CalcExtra == 2

CurveLens == {39, 40, 40 + CalcExtra}

\* Sample i (from 0) of a curve: a constant level; a rise to a peak at
\* sample 14 and a return to the level; a small peak followed by a drop
\* below the level; a peak that decays too slowly to return; a level that
\* rises to the end; a peak at sample 28, 11 samples before the end of a
\* curve of 40.
CurveAt(kind, i) ==
    CASE kind = "flat" -> 1000
      [] kind = "hump" -> IF i < 10 THEN 1000
                          ELSE IF i <= 14 THEN 1000 + 75 * (i - 10)
                          ELSE IF i < 29 THEN 1300 - 20 * (i - 14)
                          ELSE 1000
      [] kind = "dip"  -> IF i < 12 THEN 1000 ELSE IF i = 12 THEN 1020 ELSE 900
      [] kind = "slow" -> IF i < 10 THEN 1000
                          ELSE IF i <= 14 THEN 1000 + 75 * (i - 10)
                          ELSE 1300 - 2 * (i - 14)
      [] kind = "rise" -> 1000 + 3 * i
      [] kind = "late" -> IF i < 24 THEN 1000
                          ELSE IF i <= 28 THEN 1000 + 60 * (i - 23)
                          ELSE 1300 - 30 * (i - 28)

CurveKinds == {"flat", "hump", "dip", "slow", "rise", "late"}
Curve(kind, n) == [i \in 1..n |-> CurveAt(kind, i - 1)]

\* The 10-byte hardware record of _extract_hw_metadata
HwRecordOf(To, Th, amplitude, Fo_x100, peak_raw, Ti) ==
    << To, Th, amplitude % 256, amplitude \div 256, Fo_x100 % 256, Fo_x100 \div 256,
       peak_raw, Ti, 0, EOT >>

\* Records with To, Th, Ti zero or positive and a small or a large
\* amplitude; records with a zero amplitude, a zero capacity, a peak within
\* the last samples and a peak past the last sample.
HwRecords ==
    {HwRecordOf(To, Th, a, 100, 5, Ti) :
        To \in {0, 1, 12}, Th \in {0, 6}, a \in {10, 300}, Ti \in {0, 3}}
    \cup {HwRecordOf(12, 6, 0, 100, 5, 3), HwRecordOf(12, 6, 300, 0, 5, 3),
          HwRecordOf(12, 6, 300, 100, 25, 3), HwRecordOf(12, 6, 300, 100, 40, 3)}

\* GS and the baseline at the start of the metadata
BaselineBytes(b) == << GS, b % 256, b \div 256 >>

\* Trailing metadata: without the exam-id pattern; the exam id and a
\* hardware record without the baseline; baseline, exam id and record.
CalcMetas ==
    {Filler(10)}
    \cup {MetaShort \o r : r \in {HwRecordOf(12, 6, 300, 100, 5, 3), HwRecordOf(0, 0, 0, 0, 5, 0)}}
    \cup {BaselineBytes(1000) \o MetaShort \o r : r \in HwRecords}
    \cup {BaselineBytes(b) \o MetaShort \o HwRecordOf(12, 6, 300, 100, 5, 3) : b \in {0, 3600}}

CalcInputs == [kind : CurveKinds, n : CurveLens, meta : CalcMetas]

\* The block _try_parse_block builds from the frame of an input
CalcBlock(in) == BuildBlock(Frame(226, 0, Curve(in.kind, in.n), in.meta), 0)

InitCalc ==
    /\ scn = NoScenario
    /\ stream = << >>
    /\ InitReceiver
    /\ InitTrimIdle
    /\ cin \in CalcInputs
    /\ cblk = << >>
    /\ cres = << >>
    /\ InitUiIdle
    /\ InitThreads
    /\ InitConnIdle
    /\ InitRestIdle

\* _try_parse_block lines 103-127 on the frame of cin
Decode ==
    /\ cblk = << >>
    /\ cblk' = << CalcBlock(cin) >>
    /\ UNCHANGED << cin, cres, xavars >>

\* calculate_parameters(block)
Calculate ==
    /\ cblk # << >>
    /\ cres = << >>
    /\ cres' = << CalculateParameters(cblk[1]) >>
    /\ UNCHANGED << cin, cblk, xavars >>

NextCalc == Decode \/ Calculate

SpecCalc == InitCalc /\ [][NextCalc]_vars

(***************************************************************************)
(* The reader application (ui.py): chunks taken from the queue are         *)
(* appended to data_buffer and _parse_buffer is called; _disconnect calls  *)
(* it once more on what is left.  All of it runs on the Tk thread.         *)
(***************************************************************************)
\* Bound: the device sends 1 to MaxFrames frames.
MaxFrames == 3

\* Frames without samples: metadata without the exam-id pattern, with exam
\* id 7 and with exam id 9.
UiMetas == {Filler(10), MetaShort \o Filler(4), << 0, 0, 0, GS, 9, 0 >> \o Filler(4)}
UiFrames == {Frame(226, 0, << >>, m) : m \in UiMetas}

RECURSIVE Concat(_)
Concat(ss) == IF ss = << >> THEN << >> ELSE Head(ss) \o Concat(Tail(ss))

UiStreams == {Concat(fs) : fs \in UNION {[1..n -> UiFrames] : n \in 1..MaxFrames}}

\* The sizes of the chunks recv returns: a header and part of the metadata,
\* a whole frame.
UiChunkSizes == {16, 19}

\* Propagate that overwrites the exam number of every earlier block.
PropagateAll(appended, exam_number) ==
    [i \in 1..Len(appended) |->
        IF i < Len(appended)
        THEN [appended[i] EXCEPT !.exam_number = exam_number]
        ELSE appended[i]]

\* for prev in self.ppg_blocks[:-1]: if prev.exam_number is None:
\* prev.exam_number = block.exam_number
Propagate(appended, exam_number) ==
    [i \in 1..Len(appended) |->
        IF i < Len(appended) /\ appended[i].exam_number = None
        THEN [appended[i] EXCEPT !.exam_number = exam_number]
        ELSE appended[i]]

\* The loop over the new blocks in _parse_buffer: each block is appended,
\* and if it has an exam number the number is propagated.
RECURSIVE AppendBlocks(_, _)
AppendBlocks(list, new) ==
    IF new = << >> THEN list
    ELSE LET block == Head(new)
             appended == list \o << block >>
         IN AppendBlocks(IF block.exam_number # None /\ block.exam_number # 0
                         THEN Propagate(appended, block.exam_number)
                         ELSE appended,
                         Tail(new))

InitUi ==
    /\ scn = NoScenario
    /\ stream \in UiStreams
    /\ InitReceiver
    /\ InitTrimIdle
    /\ InitCalcIdle
    /\ InitUiIdle
    /\ InitThreads
    /\ InitConnIdle
    /\ InitRestIdle

\* _process_queue on one chunk of k bytes: data_buffer.extend(data) and
\* _parse_buffer().  Chunks queued before _disconnect are processed after it.
ProcessQueue(k) ==
    /\ fed + k <= Len(stream)
    /\ LET parsed == ParseBuffer(data_buffer \o SubSeq(stream, fed + 1, fed + k))
       IN /\ data_buffer' = parsed.remaining
          /\ ppg_blocks' = AppendBlocks(ppg_blocks, parsed.blocks)
    /\ fed' = fed + k
    /\ UNCHANGED << scn, stream, nfeeds, buffer, blocks, pc, input, remaining,
                    new_blocks, scanned, result, iters, running, xuvars >>

\* _disconnect: running = False, and _parse_buffer() if data_buffer is not
\* empty
Disconnect ==
    /\ running
    /\ running' = FALSE
    /\ LET parsed == ParseBuffer(data_buffer)
       IN IF data_buffer # << >>
          THEN /\ data_buffer' = parsed.remaining
               /\ ppg_blocks' = AppendBlocks(ppg_blocks, parsed.blocks)
          ELSE UNCHANGED << data_buffer, ppg_blocks >>
    /\ UNCHANGED << dvars, xuvars >>

NextUi ==
    \/ \E k \in UiChunkSizes \cup {Len(stream) - fed} : k > 0 /\ ProcessQueue(k)
    \/ Disconnect

SpecUi == InitUi /\ [][NextUi]_vars

(***************************************************************************)
(* DataReceiver called from two threads (capture/receiver.py), with the    *)
(* CaptureView callback _on_block_received as on_block.  Every method      *)
(* takes the lock; the statements made under the lock are separate steps.  *)
(***************************************************************************)
\* Two frames, each without exam id, with exam id 7 or with exam id 9.
RecvStreams == {Concat(fs) : fs \in [1..2 -> UiFrames]}

InitRecv ==
    /\ scn = NoScenario
    /\ stream \in RecvStreams
    /\ InitReceiver
    /\ InitTrimIdle
    /\ InitCalcIdle
    /\ InitUiIdle
    /\ InitThreads
    /\ InitConnIdle
    /\ InitRestIdle

\* What a step of thread t leaves alone besides the receiver's state.
RecvFrame == << scn, stream, nfeeds, pc, input, remaining, new_blocks, scanned,
                result, iters, tvars, avars, uvars, cvars, zvars >>

\* Thread t calls feed(data) with the next k bytes received, flush_buffer(),
\* clear() or get_blocks(), and reaches "with self._lock".
Call(t, op, k) ==
    /\ tpc[t] = "idle"
    /\ IF op = "feed" THEN k > 0 /\ fed + k <= Len(stream) ELSE k = 0
    /\ fed' = fed + k
    /\ tdata' = [tdata EXCEPT ![t] = SubSeq(stream, fed + 1, fed + k)]
    /\ top' = [top EXCEPT ![t] = op]
    /\ tpc' = [tpc EXCEPT ![t] = "acquire"]
    /\ UNCHANGED << buffer, blocks, lock, tnew, got, pending_blocks, order, RecvFrame >>

\* with self._lock: the lock is taken when it is free.
Acquire(t) ==
    /\ tpc[t] = "acquire"
    /\ lock = 0
    /\ lock' = t
    /\ order' = IF top[t] = "feed" THEN Append(order, tdata[t]) ELSE order
    /\ tpc' = [tpc EXCEPT ![t] = top[t]]
    /\ UNCHANGED << fed, buffer, blocks, top, tdata, tnew, got, pending_blocks, RecvFrame >>

\* feed: self.buffer.extend(data)
Extend(t) ==
    /\ tpc[t] = "feed"
    /\ lock = t
    /\ buffer' = buffer \o tdata[t]
    /\ tpc' = [tpc EXCEPT ![t] = "parse"]
    /\ UNCHANGED << fed, blocks, lock, top, tdata, tnew, got, pending_blocks, order, RecvFrame >>

\* flush_buffer: if self.buffer
FlushTest(t) ==
    /\ tpc[t] = "flush_buffer"
    /\ lock = t
    /\ tpc' = [tpc EXCEPT ![t] = IF buffer # << >> THEN "parse" ELSE "release"]
    /\ UNCHANGED << fed, buffer, blocks, lock, top, tdata, tnew, got, pending_blocks, order,
                    RecvFrame >>

\* feed and flush_buffer: new_blocks, self.buffer = parse_buffer(self.buffer)
Parse(t) ==
    /\ tpc[t] = "parse"
    /\ lock = t
    /\ tnew' = [tnew EXCEPT ![t] = ParseBuffer(buffer).blocks]
    /\ buffer' = ParseBuffer(buffer).remaining
    /\ tpc' = [tpc EXCEPT ![t] = "blocks"]
    /\ UNCHANGED << fed, blocks, lock, top, tdata, got, pending_blocks, order, RecvFrame >>

\* feed and flush_buffer: one turn of "for block in new_blocks":
\* self.blocks.append(block) and self.on_block(block), which is
\* CaptureView._on_block_received: self._pending_blocks.append(block)
Callback(t) ==
    /\ tpc[t] = "blocks"
    /\ lock = t
    /\ tnew[t] # << >>
    /\ blocks' = Append(blocks, Head(tnew[t]))
    /\ pending_blocks' = Append(pending_blocks, Head(tnew[t]))
    /\ tnew' = [tnew EXCEPT ![t] = Tail(tnew[t])]
    /\ UNCHANGED << fed, buffer, lock, tpc, top, tdata, got, order, RecvFrame >>

\* clear: self.buffer.clear() and self.blocks.clear()
Clear(t) ==
    /\ tpc[t] = "clear"
    /\ lock = t
    /\ buffer' = << >>
    /\ blocks' = << >>
    /\ order' = << >>
    /\ tpc' = [tpc EXCEPT ![t] = "release"]
    /\ UNCHANGED << fed, lock, top, tdata, tnew, got, pending_blocks, RecvFrame >>

\* get_blocks: return list(self.blocks)
GetBlocks(t) ==
    /\ tpc[t] = "get_blocks"
    /\ lock = t
    /\ got' = blocks
    /\ tpc' = [tpc EXCEPT ![t] = "release"]
    /\ UNCHANGED << fed, buffer, blocks, lock, top, tdata, tnew, pending_blocks, order,
                    RecvFrame >>

\* The end of the with block: the lock is released and the method returns.
Release(t) ==
    /\ lock = t
    /\ tpc[t] = "release" \/ (tpc[t] = "blocks" /\ tnew[t] = << >>)
    /\ lock' = 0
    /\ tpc' = [tpc EXCEPT ![t] = "idle"]
    /\ UNCHANGED << fed, buffer, blocks, top, tdata, tnew, got, pending_blocks, order,
                    RecvFrame >>

NextRecv ==
    \E t \in Threads :
        \/ \E k \in UiChunkSizes \cup {Len(stream) - fed} : Call(t, "feed", k)
        \/ \E op \in {"flush_buffer", "clear", "get_blocks"} : Call(t, op, 0)
        \/ Acquire(t)
        \/ Extend(t)
        \/ FlushTest(t)
        \/ Parse(t)
        \/ Callback(t)
        \/ Clear(t)
        \/ GetBlocks(t)
        \/ Release(t)

SpecRecv == InitRecv /\ [][NextRecv]_vars

(***************************************************************************)
(* TCPConnection (capture/connection.py): the receive thread running       *)
(* _receive_loop, and disconnect() called from the interface thread.       *)
(***************************************************************************)
\* The number of non-empty chunks the device sends.
MaxRecv == 3

\* The state after connect(): socket open, flags set, receive thread started.
InitConn ==
    /\ scn = NoScenario
    /\ stream = << >>
    /\ InitReceiver
    /\ InitTrimIdle
    /\ InitCalcIdle
    /\ InitUiIdle
    /\ InitThreads
    /\ InitRestIdle
    /\ conn_running = TRUE
    /\ connected = TRUE
    /\ socket = "open"
    /\ lpc = "while"
    /\ dpc = "idle"
    /\ data = 0
    /\ arrived = 0
    /\ acks = << >>
    /\ handed = << >>
    /\ notified = << >>

xcvars == << dvars, tvars, avars, uvars, rvars, zvars >>

\* while self.running
LoopTest ==
    /\ lpc = "while"
    /\ lpc' = IF conn_running THEN "recv" ELSE "done"
    /\ UNCHANGED << conn_running, connected, socket, dpc, data, arrived, acks, handed, notified, xcvars >>

\* data = self.socket.recv(1024): a non-empty chunk, b'' (closed by the
\* peer), socket.timeout or another exception; on a socket that is None or
\* was closed by disconnect() the call raises.
Recv(outcome) ==
    /\ lpc = "recv"
    /\ IF socket # "open" \/ outcome = "error"
       THEN lpc' = "except" /\ UNCHANGED << data, arrived >>
       ELSE CASE outcome = "chunk" ->
                    /\ arrived < MaxRecv
                    /\ arrived' = arrived + 1
                    /\ data' = arrived + 1
                    /\ lpc' = "if_connected"
              [] outcome = "empty" -> lpc' = "closed" /\ UNCHANGED << data, arrived >>
              [] outcome = "timeout" -> lpc' = "while" /\ UNCHANGED << data, arrived >>
    /\ UNCHANGED << conn_running, connected, socket, dpc, acks, handed, notified, xcvars >>

\* if self.connected and self.socket
AckTest ==
    /\ lpc = "if_connected"
    /\ lpc' = IF connected /\ socket # "None" THEN "send" ELSE "on_data"
    /\ UNCHANGED << conn_running, connected, socket, dpc, data, arrived, acks, handed, notified, xcvars >>

\* self.socket.send(self.ACK): the byte is sent, or the call raises (always
\* so when self.socket has become None or the socket was closed).
SendAck(ok) ==
    /\ lpc = "send"
    /\ IF ok /\ socket = "open"
       THEN acks' = Append(acks, data) /\ lpc' = "on_data"
       ELSE acks' = acks /\ lpc' = "except"
    /\ UNCHANGED << conn_running, connected, socket, dpc, data, arrived, handed, notified, xcvars >>

\* if self.on_data: self.on_data(data), on_data being set before connect()
OnData ==
    /\ lpc = "on_data"
    /\ handed' = Append(handed, data)
    /\ lpc' = "while"
    /\ UNCHANGED << conn_running, connected, socket, dpc, data, arrived, acks, notified, xcvars >>

\* elif data == b'': the flags are cleared, on_disconnect (set before
\* connect()) is called and the loop is left.
PeerClosed ==
    /\ lpc = "closed"
    /\ connected' = FALSE
    /\ conn_running' = FALSE
    /\ notified' = Append(notified, "closed")
    /\ lpc' = "done"
    /\ UNCHANGED << socket, dpc, data, arrived, acks, handed, xcvars >>

\* except Exception: if self.running
Except ==
    /\ lpc = "except"
    /\ lpc' = IF conn_running THEN "except_body" ELSE "done"
    /\ UNCHANGED << conn_running, connected, socket, dpc, data, arrived, acks, handed, notified, xcvars >>

\* The body of the if: the flags are cleared and on_disconnect is called;
\* break.
ExceptBody ==
    /\ lpc = "except_body"
    /\ connected' = FALSE
    /\ conn_running' = FALSE
    /\ notified' = Append(notified, "error")
    /\ lpc' = "done"
    /\ UNCHANGED << socket, dpc, data, arrived, acks, handed, xcvars >>

\* disconnect(), one statement at a time.
DisconnectStep ==
    /\ dpc # "done"
    /\ CASE dpc = "idle" ->
                /\ conn_running' = FALSE
                /\ dpc' = "connected"
                /\ UNCHANGED << connected, socket >>
          [] dpc = "connected" ->
                /\ connected' = FALSE
                /\ dpc' = "close"
                /\ UNCHANGED << conn_running, socket >>
          [] dpc = "close" ->
                /\ socket' = IF socket # "None" THEN "closed" ELSE socket
                /\ dpc' = IF socket # "None" THEN "socket" ELSE "done"
                /\ UNCHANGED << conn_running, connected >>
          [] dpc = "socket" ->
                /\ socket' = "None"
                /\ dpc' = "done"
                /\ UNCHANGED << conn_running, connected >>
    /\ UNCHANGED << lpc, data, arrived, acks, handed, notified, xcvars >>

NextConn ==
    \/ LoopTest
    \/ \E outcome \in {"chunk", "empty", "timeout", "error"} : Recv(outcome)
    \/ AckTest
    \/ \E ok \in BOOLEAN : SendAck(ok)
    \/ OnData
    \/ PeerClosed
    \/ Except
    \/ ExceptBody
    \/ DisconnectStep

SpecConn == InitConn /\ [][NextConn]_vars

(***************************************************************************)
(* The software To of calculate_parameters (lines 172-176) on recovery     *)
(* segments of up to 120 seconds and more.                                 *)
(***************************************************************************)
\* Bound: the samples of the longest segment beyond 120 s of recording.
ToExtra == 2

\* The lengths of the recovery segments: the shortest accepted, and around
\* 481 samples (120 s at 4 Hz after the peak).
RecoveryLens == {10, 11, 40, 200, 480, 481, 481 + ToExtra}

\* Sample i (from 0) of a recovery segment of n samples: the peak 4100 over
\* the baseline 4000, then samples that stay at 4100 ("hold") or swing
\* between 4060 and 4119 above the peak ("swing") or fall by 1 per sample
\* ("fall"), and a last sample chosen freely.
RecoveryAt(shape, n, last, i) ==
    IF i = 0 THEN 4100
    ELSE IF i = n - 1 THEN last
    ELSE CASE shape = "hold" -> 4100
           [] shape = "swing" -> IF i % 4 = 1 THEN 4060 ELSE 4119
           [] shape = "fall" -> IF 4100 - i > 4003 THEN 4100 - i ELSE 4004

Recovery(in) == [i \in 1..in.n |-> RecoveryAt(in.shape, in.n, in.last, i - 1)]

\* Last samples: below the level, at the level 4003, just above it, and
\* above the samples before it.
RecoveryInputs ==
    [shape : {"hold", "swing", "fall"}, n : RecoveryLens,
     last : {4000, 4003, 4004, 4010, 4119}, level : {4003}]

InitTo ==
    /\ scn = NoScenario
    /\ stream = << >>
    /\ InitReceiver
    /\ InitTrimIdle
    /\ InitCalcIdle
    /\ InitUiIdle
    /\ InitThreads
    /\ InitConnIdle
    /\ rin \in RecoveryInputs
    /\ to_val = << >>
    /\ InitViewIdle

\* The variables the To computation leaves alone.
xevars == << dvars, tvars, avars, uvars, rvars, cvars, vvars >>

\* To_samples_val = _find_crossing(...), _extrapolate_crossing(...) if None,
\* To = To_samples_val * sample_time
ComputeTo ==
    /\ to_val = << >>
    /\ to_val' = << SoftwareTo(Recovery(rin), QInt(rin.level)) >>
    /\ UNCHANGED << rin, xevars >>

NextTo == ComputeTo

SpecTo == InitTo /\ [][NextTo]_vars

(***************************************************************************)
(* CaptureView (gui/capture_view.py): the connection thread calling        *)
(* _on_block_received, and the interface thread running the deferred       *)
(* _add_block_to_list callbacks, _clear_blocks and _save_exam.  A block is *)
(* the number of the _on_block_received call that brought it.              *)
(***************************************************************************)
\* Bound: the number of blocks received.
MaxArrivals == 3

InitView ==
    /\ scn = NoScenario
    /\ stream = << >>
    /\ InitReceiver
    /\ InitTrimIdle
    /\ InitCalcIdle
    /\ InitUiIdle
    /\ InitThreads
    /\ InitConnIdle
    /\ InitToIdle
    /\ InitViewIdle

\* The variables the view leaves alone.
xvvars == << dvars, tvars, avars, uvars, cvars, evars, lock, tpc, top, tdata, tnew, got, order >>

\* _on_block_received: self._pending_blocks.append(block)
OnBlockReceived ==
    /\ vpc = "idle"
    /\ narrived < MaxArrivals
    /\ narrived' = narrived + 1
    /\ vblock' = narrived + 1
    /\ pending_blocks' = Append(pending_blocks, narrived + 1)
    /\ vpc' = "after"
    /\ UNCHANGED << after_queue, listbox, saved, xvvars >>

\* _on_block_received: self.after(0, lambda b=block: self._add_block_to_list(b))
After ==
    /\ vpc = "after"
    /\ after_queue' = Append(after_queue, vblock)
    /\ vpc' = "idle"
    /\ UNCHANGED << vblock, narrived, pending_blocks, listbox, saved, xvvars >>

\* The row _add_block_to_list inserts: f"Bloco {idx}: ..." with the exam
\* number, the label and the sample count of the block.
Row(idx, block) == [idx |-> idx, block |-> block]

\* _add_block_to_list, run by the event loop for the oldest callback.
AddBlockToList ==
    /\ after_queue # << >>
    /\ listbox' = Append(listbox, Row(Len(pending_blocks), Head(after_queue)))
    /\ after_queue' = Tail(after_queue)
    /\ UNCHANGED << vpc, vblock, narrived, pending_blocks, saved, xvvars >>

\* _clear_blocks (receiver.clear() empties the DataReceiver, which the view
\* does not read).
ClearBlocks ==
    /\ pending_blocks' = << >>
    /\ listbox' = << >>
    /\ UNCHANGED << vpc, vblock, narrived, after_queue, saved, xvvars >>

\* blocks_listbox.curselection(): no row, or one row of the listbox.
Selections == {<< >>} \cup {<< i >> : i \in 0..(Len(listbox) - 1)}

\* [self._pending_blocks[i] for i in selection], or list(self._pending_blocks)
\* without a selection; << "IndexError" >> when an index is out of range.
SelectedBlocks(selection) ==
    IF selection = << >> THEN pending_blocks
    ELSE IF \E k \in 1..Len(selection) : selection[k] >= Len(pending_blocks)
         THEN << "IndexError" >>
         ELSE [k \in 1..Len(selection) |-> pending_blocks[selection[k] + 1]]

\* _save_exam with a patient chosen: it returns at once without blocks;
\* else the selected blocks, or all, are saved as the channels of an exam.
SaveExam(selection) ==
    /\ saved = << >>
    /\ pending_blocks # << >>
    /\ saved' = << [shown |-> [k \in 1..Len(selection) |-> listbox[selection[k] + 1]],
                    blocks |-> SelectedBlocks(selection)] >>
    /\ UNCHANGED << vpc, vblock, narrived, after_queue, pending_blocks, listbox, xvvars >>

NextView ==
    \/ OnBlockReceived
    \/ After
    \/ AddBlockToList
    \/ ClearBlocks
    \/ \E selection \in Selections : SaveExam(selection)

SpecView == InitView /\ [][NextView]_vars

(***************************************************************************)
(* Properties.                                                             *)
(***************************************************************************)
IsPrefix(a, b) == Len(a) <= Len(b) /\ a = SubSeq(b, 1, Len(a))

\* C9: trimming is idempotent: the block constructed again from the trimmed
\* samples of a block has the same samples,
\* _trim_trailing_artifacts(_trim_trailing_artifacts(s)) = _trim_trailing_artifacts(s).
C9_TrimIdempotent ==
    tre # << >> => tre[1].samples = tblk[1].samples

\* The trimmed list t of the list s: a prefix that drops at most the last 5
\* samples, and s itself when s has fewer than 15 samples.
DropsAtMostFive(s, t) ==
    /\ IsPrefix(t, s)
    /\ Len(s) - 5 <= Len(t)
    /\ Len(t) <= Len(s)
    /\ Len(s) < 15 => t = s

\* C10: the trimmed list is a prefix of the input that drops at most its
\* last 5 samples, a list shorter than 15 samples is returned unchanged, and
\* every block has len(samples) <= len(samples_raw).
C10_TrimDropsAtMostFive ==
    /\ tblk # << >> =>
        /\ tblk[1].samples_raw = tin
        /\ DropsAtMostFive(tin, tblk[1].samples)
        /\ Len(tblk[1].samples) <= Len(tblk[1].samples_raw)
    /\ tre # << >> =>
        /\ DropsAtMostFive(tblk[1].samples, tre[1].samples)
        /\ Len(tre[1].samples) <= Len(tre[1].samples_raw)

\* A block of at least 15 samples was constructed and lost exactly its last 5.
C10_Witness ==
    /\ tblk # << >>
    /\ Len(tin) >= 15
    /\ Len(tblk[1].samples) = Len(tin) - 5

(***************************************************************************)
(* Properties of the decoder.                                              *)
(***************************************************************************)
\* A call of parse_buffer has returned.
CallDone == pc = "idle" /\ nfeeds >= 1

\* The whole stream was decoded in one call.
WholeInOneCall == pc = "idle" /\ nfeeds = 1 /\ fed = Len(stream)

\* The stream was decoded in two calls, split at some point.
TwoCalls == pc = "idle" /\ nfeeds = 2 /\ fed = Len(stream)

\* Two blocks are the same: label, raw samples, exam number, metadata and
\* hardware fields are equal.
SameBlock(a, b) ==
    /\ a.label_byte = b.label_byte
    /\ a.samples_raw = b.samples_raw
    /\ a.exam_number = b.exam_number
    /\ a.metadata_raw = b.metadata_raw
    /\ a.hw_baseline = b.hw_baseline
    /\ a.hw_peak_index = b.hw_peak_index
    /\ a.hw_end_index = b.hw_end_index
    /\ a.hw_amplitude = b.hw_amplitude
    /\ a.hw_To_samples = b.hw_To_samples
    /\ a.hw_Th_samples = b.hw_Th_samples
    /\ a.hw_Ti = b.hw_Ti
    /\ a.hw_Fo_x100 = b.hw_Fo_x100
    /\ a.hw_flags = b.hw_flags

SameBlocks(as, bs) ==
    Len(as) = Len(bs) /\ \A i \in 1..Len(as) : SameBlock(as[i], bs[i])

\* C1: streaming equivalence: parse_buffer on B[:p], then on the remainder
\* of that call followed by B[p:], yields the same sequence of blocks as
\* one call on B.
C1_StreamingEquivalence ==
    TwoCalls => SameBlocks(blocks, ParseBuffer(stream).blocks)

\* The bytes at pos start a header: ESC 'L' <label> EOT SOH GS.
StartsHeader(buf, pos) ==
    /\ At(buf, pos) = ESC
    /\ At(buf, pos + 1) = 76
    /\ At(buf, pos + 3) = 4
    /\ At(buf, pos + 4) = 1
    /\ At(buf, pos + 5) = 29

\* The metadata holds 00 00 00 1D <id> with the id in 1..9999.
HasExamPattern(meta) ==
    \E i \in 0..(Len(meta) - 6) :
        /\ At(meta, i) = 0 /\ At(meta, i + 1) = 0 /\ At(meta, i + 2) = 0
        /\ At(meta, i + 3) = 29
        /\ At(meta, i + 4) + 256 * At(meta, i + 5) \in 1..9999

\* The stream is exactly one valid frame whose metadata carries an exam id.
OneFrameAlone ==
    /\ scn.kind = "frame"
    /\ scn.lead = << >>
    /\ scn.tail = << >>
    /\ HasExamPattern(scn.meta)

\* rem is made only of bytes of the stream past the 40-byte metadata window
\* of the frame at the start of the stream.
BeyondWindow(rem) ==
    /\ Len(rem) <= Len(stream) - (9 + 2 * Len(scn.samples) + 40)
    /\ rem = From(stream, Len(stream) - Len(rem))

\* One block with the original samples, and nothing left but bytes beyond
\* the metadata window.
RoundTrips ==
    /\ Len(new_blocks) = 1
    /\ new_blocks[1].samples_raw = scn.samples
    /\ buffer = << >> \/ BeyondWindow(buffer)

\* C2 as stated: for every buffer made of exactly one valid frame whose
\* metadata contains a valid exam-id pattern, parse_buffer returns exactly
\* one block with the original samples and a remainder that is empty or
\* beyond the 40-byte metadata window.
C2_FrameRoundTripOriginal ==
    (WholeInOneCall /\ OneFrameAlone) => RoundTrips

\* The metadata is at least 10 bytes long and has no marker byte among its
\* first 40 bytes.
MetaCompleteAndClean(meta) ==
    /\ Len(meta) >= 10
    /\ \A i \in 0..(Min(Len(meta), 40) - 1) : At(meta, i) # ESC

\* C2 amended: the frame round-trips when its metadata is at least 10 bytes
\* long and has no marker byte among its first 40 bytes.
C2_FrameRoundTrip ==
    (WholeInOneCall /\ OneFrameAlone /\ MetaCompleteAndClean(scn.meta)) => RoundTrips

\* A frame with samples was decoded alone and left bytes beyond the window.
C2_Witness ==
    /\ WholeInOneCall
    /\ OneFrameAlone
    /\ MetaCompleteAndClean(scn.meta)
    /\ Len(scn.samples) >= 1
    /\ Len(new_blocks) = 1
    /\ buffer # << >>

RemovedMarkers == {i \in 0..(result.bytes_consumed - 1) : At(scanned, i) = ESC}

Emitted == result.block # << >>

FirstMarker == Index(scanned, 27)

\* The count and the end of the payload of the frame at marker e of buf.
CountAt(buf, e) == At(buf, e + 7) + 256 * At(buf, e + 8)
PayloadEndAt(buf, e) == e + 9 + 2 * CountAt(buf, e)

BeganBlock(i) == Emitted /\ i = FirstMarker

InPayload(i) ==
    /\ Emitted
    /\ FirstMarker + 9 <= i
    /\ i < PayloadEndAt(scanned, FirstMarker)

InHeader(i) == Emitted /\ FirstMarker < i /\ i < FirstMarker + 9

\* The marker at i failed the header check with its header bytes present.
FailedHeaderCheck(i) ==
    /\ ~Emitted
    /\ i = FirstMarker
    /\ i + 9 <= Len(scanned)
    /\ ~StartsHeader(scanned, i)

\* C4 as stated: every marker byte removed from the buffer began an emitted
\* block, lay inside the payload of an emitted block, or failed the header
\* check with all its header bytes present.
C4_RemovedMarkersOriginal ==
    \A i \in RemovedMarkers : BeganBlock(i) \/ InPayload(i) \/ FailedHeaderCheck(i)

\* C4 amended: ... or lay inside the header or the payload of an emitted
\* block; so a marker outside an emitted frame is removed only with its
\* header bytes present.
C4_RemovedMarkers ==
    \A i \in RemovedMarkers :
        /\ BeganBlock(i) \/ InHeader(i) \/ InPayload(i) \/ FailedHeaderCheck(i)
        /\ ~(InHeader(i) \/ InPayload(i)) => i + 9 <= Len(scanned)

\* A block was emitted whose header holds a marker byte after the first.
C4_Witness ==
    /\ Emitted
    /\ \E i \in RemovedMarkers : InHeader(i)
    /\ \E i \in RemovedMarkers : InPayload(i)

\* The frame at the marker e of buf lacks bytes for its header, its payload
\* or its trailing metadata (no marker among the 30 bytes after the payload
\* and fewer than 10 bytes after it).
FrameIncomplete(buf, e) ==
    \/ e + 9 > Len(buf)
    \/ /\ StartsHeader(buf, e)
       /\ \/ PayloadEndAt(buf, e) > Len(buf)
          \/ /\ Len(buf) - PayloadEndAt(buf, e) < 10
             /\ \A i \in PayloadEndAt(buf, e)..(Len(buf) - 1) :
                    i < PayloadEndAt(buf, e) + 30 => At(buf, i) # ESC

\* C5: when the frame at the first marker lacks bytes, _try_parse_block
\* reports needs_more_data with bytes_consumed = 0 and parse_buffer returns
\* a remainder that ends with that marker and every byte after it.
C5_IncompleteConsumesNothing ==
    (FirstMarker # None /\ FrameIncomplete(scanned, FirstMarker)) =>
        /\ result.needs_more_data
        /\ result.bytes_consumed = 0
        /\ pc = "idle"
        /\ Len(buffer) >= Len(scanned) - FirstMarker
        /\ From(buffer, Len(buffer) - (Len(scanned) - FirstMarker)) = From(scanned, FirstMarker)

\* Noise, then a valid header whose payload has not fully arrived.
C5_Witness ==
    /\ FirstMarker # None
    /\ FirstMarker >= 1
    /\ StartsHeader(scanned, FirstMarker)
    /\ FirstMarker + 9 <= Len(scanned)
    /\ PayloadEndAt(scanned, FirstMarker) > Len(scanned)
    /\ result.needs_more_data
    /\ pc = "idle"

\* The stream is a marker byte that starts no valid header, at most 8 noise
\* bytes, and one complete valid frame.
FalseMarkerThenFrame ==
    /\ scn.kind = "frame"
    /\ scn.lead # << >>
    /\ Len(scn.lead) <= 9
    /\ At(scn.lead, 0) = ESC
    /\ ~StartsHeader(stream, 0)
    /\ scn.tail = << >>
    /\ Len(scn.meta) >= 10

\* C6: a bare marker that starts no valid header, followed by one complete
\* valid frame, yields exactly one block, that frame's, also when the frame
\* starts within the 9 bytes after the false marker.
C6_MarkerSkipRecovery ==
    (WholeInOneCall /\ FalseMarkerThenFrame) =>
        /\ Len(new_blocks) = 1
        /\ new_blocks[1].label_byte = scn.label
        /\ new_blocks[1].samples_raw = scn.samples
        /\ new_blocks[1].metadata_raw = Slice(scn.meta, 0, 40)

\* A frame with samples that starts 3 bytes after a false marker was decoded.
C6_Witness ==
    /\ WholeInOneCall
    /\ FalseMarkerThenFrame
    /\ Len(scn.lead) >= 3
    /\ Len(scn.samples) >= 1
    /\ Len(new_blocks) = 1

\* C7: parse_buffer terminates: every iteration after which the loop goes
\* on has removed at least one byte, so a call makes at most
\* len(buffer) + 1 iterations.
C7_LoopProgress ==
    /\ pc = "parsing" => iters + Len(remaining) <= Len(input)
    /\ iters <= Len(input) + 1

\* The loop has gone round three times and goes on.
C7_Witness ==
    pc = "parsing" /\ iters >= 3 /\ Len(remaining) >= 1

\* C8: every indexed read of parse_buffer is within the sequence it reads,
\* so no IndexError is raised.
C8_NoIndexError ==
    /\ pc # "raised"
    /\ pc = "parsing" => \A r \in Reads(remaining) : 0 <= r[1] /\ r[1] < r[2]
    /\ \A r \in Reads(scanned) : 0 <= r[1] /\ r[1] < r[2]

\* A block with samples, exam number and hardware record was decoded from a
\* metadata window that ends with the record.
C8_Witness ==
    /\ Emitted
    /\ result.block[1].samples_raw # << >>
    /\ result.block[1].exam_number # None
    /\ result.block[1].hw_flags # None
    /\ Len(result.block[1].metadata_raw) < 40

(***************************************************************************)
(* calculate_parameters.                                                   *)
(***************************************************************************)
\* calculate_parameters has returned
Calculated == cres # << >>
\* ... a PPGParameters value
Returned == Calculated /\ cres[1] # << >>
Params == cres[1][1]
Block == cblk[1]

\* C11: every PPGParameters value returned by calculate_parameters has, in
\* the stored (rounded) fields, To > 0, Th > 0, Ti > 0, Vo >= 0.5 and
\* Fo >= 0.
C11_StoredFieldsValid ==
    Returned =>
        /\ Params.To[1] > 0
        /\ Params.Th[1] > 0
        /\ Params.Ti[1] > 0
        /\ QLe(Q(5, 10), Params.Vo)
        /\ Params.Fo[1] >= 0

AllEqual(s) == \A i \in 1..Len(s) : s[i] = s[1]

\* C12 as stated: calculate_parameters returns None for every block with
\* fewer than 40 samples and for every block of 40 samples that are all
\* equal.
C12_RejectionBoundaryOriginal ==
    Calculated /\ (Len(Block.samples) < 40
                   \/ (Len(Block.samples) = 40 /\ AllEqual(Block.samples)))
        => cres[1] = << >>

\* C12: calculate_parameters returns None for every block with fewer than 40
\* samples, and for every block of 40 equal samples on which the decoder did
\* not set both the baseline and the hardware record.
C12_RejectionBoundary ==
    Calculated /\ (Len(Block.samples) < 40
                   \/ (Len(Block.samples) = 40 /\ AllEqual(Block.samples)
                       /\ (Block.hw_baseline = None \/ Block.hw_amplitude = None)))
        => cres[1] = << >>

\* None was returned for 40 equal samples without hardware fields.
C12_Witness ==
    /\ Calculated
    /\ Len(Block.samples) = 40
    /\ AllEqual(Block.samples)
    /\ Block.hw_baseline = None
    /\ cres[1] = << >>

\* x in tenths, for a stored value x = round(., 1)
Tenths(x) == x[1] * (10 \div x[2])

\* t tenths is a tenth nearest to num / den
NearestTenth(t, num, den) == 2 * Abs(den * t - 10 * num) <= den

HwUsable(b) ==
    /\ b.hw_baseline # None
    /\ b.hw_To_samples # None
    /\ b.hw_baseline > 0
    /\ b.hw_amplitude > 0
    /\ b.hw_To_samples > 0
    /\ b.hw_Th_samples > 0
    /\ b.hw_Ti > 0
    /\ 200 * b.hw_amplitude >= b.hw_baseline
    /\ b.hw_peak_index + 10 <= Len(b.samples)

Decoded(b) == ExtractExamNumber(b.metadata_raw).exam_number

\* The blocks after block i that were decoded with an exam number
LaterNumbered(i) == {j \in (i + 1)..Len(ppg_blocks) : Decoded(ppg_blocks[j]) # None}

\* C14: a block decoded with an exam number keeps it; a block decoded
\* without one has the number of the first block with a number appended
\* after it, and none while there is no such block; so no block without an
\* exam number precedes a block with one.
C14_UiBackfill ==
    /\ \A i \in 1..Len(ppg_blocks) :
          LET b == ppg_blocks[i]
          IN IF Decoded(b) # None THEN b.exam_number = Decoded(b)
             ELSE IF LaterNumbered(i) = {} THEN b.exam_number = None
             ELSE \E j \in LaterNumbered(i) :
                    /\ \A h \in LaterNumbered(i) : j <= h
                    /\ b.exam_number = Decoded(ppg_blocks[j])
    /\ \A i, j \in 1..Len(ppg_blocks) :
          i < j /\ ppg_blocks[j].exam_number # None => ppg_blocks[i].exam_number # None

\* A block decoded without an exam number was given 7 by the next block, and
\* a third block then arrived with 9.
C14_Witness ==
    /\ Len(ppg_blocks) = 3
    /\ Decoded(ppg_blocks[1]) = None
    /\ Decoded(ppg_blocks[2]) = 7
    /\ Decoded(ppg_blocks[3]) = 9
    /\ ppg_blocks[1].exam_number = 7

(***************************************************************************)
(* The capture path: DataReceiver and CaptureView.                         *)
(***************************************************************************)
\* No block without an exam number precedes a block with one.
Backfilled(list) ==
    \A i, j \in 1..Len(list) :
        i < j /\ list[j].exam_number # None => list[i].exam_number # None

\* C15: once a block carrying an exam number has been received through
\* DataReceiver.feed, every block received before it carries an exam number,
\* in DataReceiver.blocks and in CaptureView._pending_blocks.
C15_CaptureBackfill ==
    lock = 0 => Backfilled(blocks) /\ Backfilled(pending_blocks)

\* The last n elements of a list
LastOf(list, n) == SubSeq(list, Len(list) - n + 1, Len(list))

\* C16: whenever no call is under way, the blocks list is what decoding the
\* chunks fed since the last clear, concatenated in lock-acquisition order,
\* gives, and these blocks are the last on_block calls, each made once and
\* in stream order.
C16_ThreadSafe ==
    lock = 0 =>
        /\ blocks = ParseBuffer(Concat(order)).blocks
        /\ Len(blocks) <= Len(pending_blocks)
        /\ blocks = LastOf(pending_blocks, Len(blocks))

(***************************************************************************)
(* The transport layer: TCPConnection._receive_loop.                       *)
(***************************************************************************)
\* The chunks 1..n in arrival order
Arrivals(n) == [i \in 1..n |-> i]

\* C17: whenever the receive thread is not handling a chunk (it is at the
\* loop test, in recv or has left the loop), every non-empty chunk recv
\* returned has been answered with exactly one ACK byte, sent before the
\* chunk was handed to on_data, and was handed to on_data exactly once, in
\* arrival order; no ACK is sent without a chunk.
C17_AckEveryChunk ==
    /\ (lpc \in {"while", "recv", "done"} =>
            acks = Arrivals(arrived) /\ handed = Arrivals(arrived))
    /\ Len(handed) <= Len(acks)
    /\ \A i \in 1..Len(acks) : acks[i] = i /\ i <= arrived
    /\ \A i \in 1..Len(handed) : handed[i] = i

(***************************************************************************)
(* The metadata window, the emission test and the exam number.             *)
(***************************************************************************)
\* The end of the payload of the frame the last call looked at
ScannedDataEnd == PayloadEndAt(scanned, FirstMarker)

\* The first marker byte of the scanned buffer at or after offset a, or the
\* length of the buffer
NextMarker(a) ==
    IF \E i \in a..(Len(scanned) - 1) : scanned[i + 1] = 27
    THEN CHOOSE i \in a..(Len(scanned) - 1) :
            scanned[i + 1] = 27 /\ \A j \in a..(i - 1) : scanned[j + 1] # 27
    ELSE Len(scanned)

\* The bytes of the scanned buffer from the end of the payload up to the
\* next marker byte (exclusive), and at most 40 of them
OwnMetadata ==
    Slice(scanned, ScannedDataEnd,
          Min(ScannedDataEnd + 40, NextMarker(ScannedDataEnd)))

\* C18: the metadata window of an emitted block holds only the bytes between
\* the end of its payload and the next marker byte (exclusive), at most 40
\* of them, so that its exam number and hardware fields are those read from
\* these bytes.
C18_MetadataWindow ==
    Emitted =>
        /\ result.block[1].metadata_raw = OwnMetadata
        /\ result.block[1].exam_number = ExtractExamNumber(OwnMetadata).exam_number

\* The header and the payload of the frame at the first marker of the
\* scanned buffer are in the buffer.
FrameBuffered ==
    /\ pc # "raised"
    /\ FirstMarker # None
    /\ FirstMarker + 9 <= Len(scanned)
    /\ StartsHeader(scanned, FirstMarker)
    /\ ScannedDataEnd <= Len(scanned)

\* The number of bytes of the scanned buffer after the payload
Following == Len(scanned) - ScannedDataEnd

\* A marker byte is among the first 30 bytes after the payload.
MarkerFollows ==
    \E k \in 1..Min(30, Following) : scanned[ScannedDataEnd + k] = 27

\* C19: a frame whose header and payload are in the buffer is emitted if and
\* only if a marker byte is among the up to 30 bytes after its payload or at
\* least 10 bytes follow its payload; otherwise _try_parse_block reports
\* needs_more_data, emits nothing and consumes nothing.
C19_EmitIff ==
    FrameBuffered =>
        IF MarkerFollows \/ Following >= 10
        THEN Emitted /\ ~result.needs_more_data
        ELSE /\ ~Emitted
             /\ result.needs_more_data
             /\ result.bytes_consumed = 0
             /\ remaining = scanned

\* A frame was emitted on a marker byte with fewer than 10 bytes after its
\* payload.
C19_Witness ==
    /\ FrameBuffered
    /\ MarkerFollows
    /\ Following < 10
    /\ Emitted

\* The offsets of a metadata window where 00 00 00 1D is followed by two
\* bytes whose little-endian value is in 1..9999
ExamOffsets(m) ==
    {i \in 0..(Len(m) - 6) :
        /\ m[i + 1] = 0 /\ m[i + 2] = 0 /\ m[i + 3] = 0 /\ m[i + 4] = 29
        /\ m[i + 5] + 256 * m[i + 6] \in 1..9999}

\* The value after the lowest of these offsets, None when there is none
ExamNumberOf(m) ==
    IF ExamOffsets(m) = {} THEN None
    ELSE LET i == CHOOSE k \in ExamOffsets(m) : \A j \in ExamOffsets(m) : k <= j
         IN m[i + 5] + 256 * m[i + 6]

\* C20: the exam number of every emitted block is the little-endian 16-bit
\* value after the lowest-offset occurrence of 00 00 00 1D in its metadata
\* window whose value is in 1..9999, occurrences with another value being
\* skipped; it is absent exactly when no occurrence qualifies, so it is
\* absent or in 1..9999.
C20_ExamNumber ==
    \A b \in {blocks[k] : k \in 1..Len(blocks)} \cup {result.block[k] : k \in 1..Len(result.block)} :
        /\ b.exam_number = ExamNumberOf(b.metadata_raw)
        /\ b.exam_number = None <=> ExamOffsets(b.metadata_raw) = {}
        /\ b.exam_number = None \/ b.exam_number \in 1..9999

\* A block was emitted whose exam number follows the second occurrence of
\* the pattern, the first being followed by 0.
C20_Witness ==
    /\ Emitted
    /\ result.block[1].exam_number = 9
    /\ ExamOffsets(result.block[1].metadata_raw) = {4}
    /\ SubSeq(result.block[1].metadata_raw, 1, 6) = << 0, 0, 0, 29, 0, 0 >>

(***************************************************************************)
(* The hardware record of a decoded block.                                 *)
(***************************************************************************)
\* The blocks decoded so far, the one of the last call included
DecodedBlocks ==
    {blocks[k] : k \in 1..Len(blocks)} \cup {result.block[k] : k \in 1..Len(result.block)}

\* The hardware fields of a block, in the order of the record
HwFields(b) ==
    << b.hw_To_samples, b.hw_Th_samples, b.hw_amplitude, b.hw_Fo_x100,
       b.hw_peak_index, b.hw_Ti, b.hw_flags, b.hw_end_index >>

\* A valid exam-id match of the window is followed by at least 10 bytes.
RecordInWindow(m) == \E i \in ExamOffsets(m) : i + 6 + 10 <= Len(m)

\* The offset of the record: after the first valid exam-id match
RecordOffset(m) == (CHOOSE k \in ExamOffsets(m) : \A j \in ExamOffsets(m) : k <= j) + 6

\* C21: the hardware fields of a decoded block are all present when a valid
\* exam-id match is followed by at least 10 bytes inside the metadata window
\* and all absent otherwise; when present they are the bytes of the record,
\* hw_peak_index = peak_raw + 7 and hw_end_index = hw_peak_index + hw_To_samples.
C21_HwRecordAllOrNothing ==
    \A b \in DecodedBlocks :
        LET m == b.metadata_raw
        IN IF RecordInWindow(m)
           THEN /\ \A k \in 1..8 : HwFields(b)[k] # None
                /\ b.hw_To_samples = m[RecordOffset(m) + 1]
                /\ b.hw_Th_samples = m[RecordOffset(m) + 2]
                /\ b.hw_amplitude = m[RecordOffset(m) + 3] + 256 * m[RecordOffset(m) + 4]
                /\ b.hw_Fo_x100 = m[RecordOffset(m) + 5] + 256 * m[RecordOffset(m) + 6]
                /\ b.hw_peak_index = m[RecordOffset(m) + 7] + 7
                /\ b.hw_Ti = m[RecordOffset(m) + 8]
                /\ b.hw_flags = m[RecordOffset(m) + 9]
                /\ b.hw_end_index = b.hw_peak_index + b.hw_To_samples
           ELSE \A k \in 1..8 : HwFields(b)[k] = None

\* A block with the record (To 12, peak_raw 20) was decoded.
C21_Witness ==
    /\ Emitted
    /\ RecordInWindow(result.block[1].metadata_raw)
    /\ result.block[1].hw_To_samples = 12
    /\ result.block[1].hw_peak_index = 27
    /\ result.block[1].hw_end_index = 39

(***************************************************************************)
(* The interquartile range of the artifact trimmer.                        *)
(***************************************************************************)
\* C22: the interquartile range the trimmer uses for its outlier bounds is
\* never less than 50, so the cut point of the primary outlier scan is never
\* a trailing sample within 125 ADC units of the median.
C22_IqrFloor ==
    (tblk # << >> /\ Len(tin) >= 15) =>
        LET st == TrimStats(tin)
            cut == FirstOutlier(tin, st.median, st.iqr)
        IN /\ st.iqr >= 50
           /\ cut < Len(tin) => Abs(At(tin, cut) - st.median) > 125

(***************************************************************************)
(* Ti with a short look-ahead.                                             *)
(***************************************************************************)
\* The block was analysed on the software path.
SoftwarePath == Calculated /\ ~HasHw(Block) /\ Len(Block.samples) >= 40

\* The peak index and the baseline calculate_parameters works with
BlockBaseline == InitialBaseline(Block)
BlockPeak == PeakIndex(Block, BlockBaseline)

\* At least 10 samples from the peak on, a peak above the baseline, and
\* fewer samples after the peak than the 3-second check looks ahead.
ShortLookAhead ==
    /\ SoftwarePath
    /\ BlockPeak # None
    /\ Len(Block.samples) - BlockPeak >= 10
    /\ Len(Block.samples) - BlockPeak <= 12
    /\ QLt(BlockBaseline, QInt(Block.samples[BlockPeak + 1]))

\* C23: on the software path, when fewer samples follow the peak than the
\* look-ahead needs, _calculate_ti still returns a value, computed on the
\* span that is available: it does not return None.
C23_TiShortLookAhead ==
    ShortLookAhead =>
        CalculateTi(Block.samples, BlockPeak, Block.samples[BlockPeak + 1], BlockBaseline) # NoneQ

(***************************************************************************)
(* To by extrapolation.                                                    *)
(***************************************************************************)
\* The recovery segment never goes from the level or above it to below it.
NeverCrosses ==
    \A i \in 1..(rin.n - 1) :
        ~(RecoveryAt(rin.shape, rin.n, rin.last, i - 1) >= rin.level
          /\ RecoveryAt(rin.shape, rin.n, rin.last, i) < rin.level)

\* The number of trailing samples the slope is fitted on
FitSamples == IF rin.n \div 2 >= 10 THEN 10 ELSE IF rin.n \div 2 < 5 THEN 5 ELSE rin.n \div 2

\* The fitted slope is non-negative.
SlopeNonNegative ==
    RecoveryAt(rin.shape, rin.n, rin.last, rin.n - 1)
        >= RecoveryAt(rin.shape, rin.n, rin.last, rin.n - FitSamples)

\* C24: whenever the recovery segment never crosses the To level, the To
\* obtained by extrapolation is at most 120 s, and it is 120 s when the
\* slope fitted on the trailing samples is non-negative.
C24_ExtrapolatedToCapped ==
    (to_val # << >> /\ NeverCrosses) =>
        /\ to_val[1] # NoneQ
        /\ QLe(to_val[1], QInt(120))
        /\ SlopeNonNegative => to_val[1] = QInt(120)

(***************************************************************************)
(* Chunked decoding, labels and raw samples.                               *)
(***************************************************************************)
\* The (label byte, raw samples) pairs of a list of blocks
LabelSamples(list) ==
    [k \in 1..Len(list) |-> << list[k].label_byte, list[k].samples_raw >>]

\* The whole stream was fed, in one chunk or more, and decoded.
AllFed == pc = "idle" /\ nfeeds >= 1 /\ fed = Len(stream)

\* C25: however the stream is cut into chunks fed one after another, once
\* all chunks are fed the decoder has emitted the same sequence of (label
\* byte, raw samples) pairs as a single call on the whole stream.
C25_ChunkedLabelSamples ==
    AllFed => LabelSamples(blocks) = LabelSamples(ParseBuffer(stream).blocks)

\* A stream fed in more than one chunk gave blocks with samples that are
\* not the blocks of a single call, the pairs being the same.
C25_Witness ==
    /\ AllFed
    /\ nfeeds >= 2
    /\ Len(blocks) >= 2
    /\ blocks[1].samples_raw # << >>
    /\ blocks # ParseBuffer(stream).blocks

(***************************************************************************)
(* parse_buffer on its own remainder, and flush_buffer.                    *)
(***************************************************************************)
\* The buffer holds a frame with its payload, followed by fewer than 10
\* bytes and no marker byte.
FrameAwaitingMetadata(buf) ==
    /\ Len(buf) >= 9
    /\ StartsHeader(buf, 0)
    /\ PayloadEndAt(buf, 0) <= Len(buf)
    /\ Len(buf) - PayloadEndAt(buf, 0) < 10
    /\ \A i \in PayloadEndAt(buf, 0)..(Len(buf) - 1) : buf[i + 1] # 27

\* C26: parse_buffer applied to the remainder it returned, with no new
\* bytes, returns no blocks and the same remainder; so flush_buffer called
\* after feed emits no block, and a last frame followed by fewer than 10
\* bytes and no marker stays in the buffer unemitted.
C26_ParseFixpoint ==
    /\ lock = 0 =>
        /\ ParseBuffer(buffer).blocks = << >>
        /\ ParseBuffer(buffer).remaining = buffer
    /\ \A t \in Threads :
        (top[t] = "flush_buffer" /\ tpc[t] = "blocks") =>
            /\ tnew[t] = << >>
            /\ ParseBuffer(buffer).remaining = buffer

\* flush_buffer has parsed a buffer that holds a frame followed by 7 bytes
\* of metadata, and has no block to report.
C26_Witness ==
    \E t \in Threads :
        /\ top[t] = "flush_buffer"
        /\ tpc[t] = "blocks"
        /\ tnew[t] = << >>
        /\ FrameAwaitingMetadata(buffer)
        /\ Len(buffer) - PayloadEndAt(buffer, 0) = 7

(***************************************************************************)
(* The indices of the returned parameters.                                 *)
(***************************************************************************)
\* C27: every PPGParameters returned by calculate_parameters, on the
\* hardware and on the software path, has
\* 0 <= exercise_start_index <= peak_index <= To_end_index <= len(samples) - 1.
C27_IndicesOrdered ==
    Returned =>
        /\ 0 <= Params.exercise_start_index
        /\ Params.exercise_start_index <= Params.peak_index
        /\ Params.peak_index <= Params.To_end_index
        /\ Params.To_end_index <= Len(Block.samples) - 1

\* Parameters were returned on the hardware path with the hardware end
\* index cut to the last sample and an exercise start after sample 0.
C27_Witness ==
    /\ Returned
    /\ HasHw(Block)
    /\ Block.hw_end_index > Len(Block.samples) - 1
    /\ Params.To_end_index = Len(Block.samples) - 1
    /\ Params.exercise_start_index > 0

\* What calculate_parameters reads of a block.
CalcInput(block) ==
    << block.samples, block.hw_baseline, block.hw_peak_index, block.hw_end_index,
       block.hw_amplitude, block.hw_To_samples, block.hw_Th_samples, block.hw_Ti,
       block.hw_Fo_x100, block.hw_flags >>

\* C28: a block saved with add_channel_from_block and loaded back with
\* channel_to_block has the label, the exam number and the samples of the
\* saved block, and gives calculate_parameters the same input.
C28_StorageRoundTrip ==
    tre # << >> =>
        /\ tre[1].label_byte = tblk[1].label_byte
        /\ tre[1].exam_number = tblk[1].exam_number
        /\ CalcInput(tre[1]) = CalcInput(tblk[1])

\* C29: on_disconnect is called at most once, by the path of a connection
\* closed by the peer or by the path of a socket error, and never once
\* disconnect() has set running to False.
C29_DisconnectNotifiedOnce ==
    [][notified' # notified =>
            /\ notified = << >>
            /\ notified' \in {<< "closed" >>, << "error" >>}
            /\ dpc = "idle"]_vars

(***************************************************************************)
(* The capture view.                                                       *)
(***************************************************************************)
\* No _on_block_received call is under way and no deferred callback waits
NoCallbackPending == vpc = "idle" /\ after_queue = << >>

\* C30: once no deferred callback is pending, the listbox has
\* len(_pending_blocks) rows, row i describes _pending_blocks[i] and is
\* labelled 'Bloco i+1'; the blocks _save_exam saves for a selection are the
\* blocks the selected rows display.
C30_ListboxMatchesBlocks ==
    /\ NoCallbackPending =>
            /\ Len(listbox) = Len(pending_blocks)
            /\ \A i \in 1..Len(listbox) :
                    listbox[i].block = pending_blocks[i] /\ listbox[i].idx = i
    /\ \A k \in 1..Len(saved) :
            saved[k].shown # << >> =>
                saved[k].blocks = [j \in 1..Len(saved[k].shown) |-> saved[k].shown[j].block]
====
